---- MODULE Spec2Model ----
(***************************************************************************)
(* Model of the SDS ("Simple Distributed State") core engine:             *)
(* src/src/sds_core.c with the JSON writer of src/src/sds_json.c and the  *)
(* transport/clock of src/tests/mock/sds_platform_mock.c.                 *)
(*                                                                         *)
(* Strings are sequences of character codes.  A section of a table struct *)
(* is a small natural number standing for its bytes; BigVal stands for    *)
(* section contents whose JSON text does not fit the message buffer.      *)
(* A JSON text is the sequence of tokens appended to the writer; the      *)
(* writer keeps the byte position so that overflow happens where the code *)
(* detects it.                                                             *)
(***************************************************************************)
EXTENDS Integers, Sequences, FiniteSets, TLC

(* ---------------- program constants ---------------- *)

SDS_MAX_TABLES == 8
SDS_MAX_NODE_ID_LEN == 32
SDS_MAX_TABLE_TYPE_LEN == 32
SDS_DEFAULT_SYNC_INTERVAL_MS == 1000
SDS_DEFAULT_LIVENESS_INTERVAL_MS == 30000
SDS_MSG_BUFFER_SIZE == 2048
SDS_SHADOW_SIZE == 256
SDS_MAX_VERSION_LEN == 32
SDS_MOCK_MAX_SUBSCRIPTIONS == 32
SDS_RECONNECT_INITIAL_MS == 1000
SDS_RECONNECT_MAX_MS == 60000
SDS_RECONNECT_MULTIPLIER == 2

(* ---------------- bounds of the model ---------------- *)

\* number of clock advances explored
MaxTicks == 3
\* largest ordinary section value (section bytes are 0..MaxVal or BigVal)
MaxVal == 1
\* status slots of an owner table struct (own_max_status_slots of the metadata)
MaxSlots == 2
\* cap on the error counter explored
MaxErrors == 2

(* ---------------- uint32_t clock values ---------------- *)

\* A uint32_t millisecond value is kept as two 16-bit limbs, hi * 65536 + lo,
\* because it does not fit the integers of the model checker.
LIMB == 65536

U32Of(n) == [hi |-> n \div LIMB, lo |-> n % LIMB]

\* a + d in uint32_t arithmetic, d an integer below 2^31
U32Add(a, d) ==
    [hi |-> (a.hi + (d \div LIMB) + ((a.lo + (d % LIMB)) \div LIMB)) % LIMB,
     lo |-> (a.lo + (d % LIMB)) % LIMB]

\* a - b in uint32_t arithmetic
U32Sub(a, b) ==
    [hi |-> (a.hi - b.hi - (IF a.lo < b.lo THEN 1 ELSE 0) + 2 * LIMB) % LIMB,
     lo |-> (a.lo - b.lo + LIMB) % LIMB]

\* x >= n for a uint32_t x and an integer n below 2^31
U32Geq(x, n) ==
    \/ x.hi > n \div LIMB
    \/ x.hi = n \div LIMB /\ x.lo >= n % LIMB

(* ---------------- strings ---------------- *)

Min(a, b) == IF a < b THEN a ELSE b

\* the string made of n copies of character c
Str(c, n) == [i \in 1..n |-> c]

\* strncpy(dst, src, n) followed by dst[n] = '\0': the first n characters
strncpy(src, n) == SubSeq(src, 1, Min(Len(src), n))

\* "own", "d1", "d2"
NodeOwn == <<111, 119, 110>>
Dev1 == <<100, 49>>
Dev2 == <<100, 50>>
\* two device ids of 32 characters that agree on their first 31 characters
LongDevA == Str(120, 31) \o <<97>>
LongDevB == Str(120, 31) \o <<98>>

\* table type names "T1", "T2", ...
TableName(k) == <<84, 48 + k>>

\* F(v) with v evaluated once (a value that is built in many steps and used
\* several times by each step is not rebuilt for every use)
Once(v, F(_)) == CHOOSE r \in {F(x) : x \in {v}} : TRUE

(* ---------------- JSON writer (sds_json.c) ---------------- *)

\* a token of JSON text: punctuation, or a key with its value
Tok(k, n, s) == [k |-> k, n |-> n, s |-> s, t |-> U32Of(0)]
Punct(c) == Tok(c, 0, <<>>)

sds_json_writer_init(size) ==
    [size |-> size, pos |-> 0, error |-> FALSE, buf |-> <<>>]

\* json_append / json_append_char: append len bytes of text, or set the error flag
json_append(w, tok, len) ==
    Once(w, LAMBDA x :
        IF x.error THEN x
        ELSE IF x.pos + len >= x.size THEN [x EXCEPT !.error = TRUE]
        ELSE [x EXCEPT !.pos = @ + len, !.buf = Append(@, tok)])

needs_comma(w) ==
    IF w.pos = 0 THEN FALSE
    ELSE w.buf[Len(w.buf)].k \notin {"{", "["}

WithComma(w) ==
    Once(w, LAMBDA x : IF needs_comma(x) THEN json_append(x, Punct(","), 1) ELSE x)

sds_json_start_object(w) == json_append(w, Punct("{"), 1)
sds_json_end_object(w) == json_append(w, Punct("}"), 1)

KeyLen(key) ==
    CASE key = "ts" -> 2
      [] key = "sv" -> 2
      [] key = "from" -> 4
      [] key = "node" -> 4
      [] key = "online" -> 6
      [] OTHER -> 4

RECURSIVE NumDigits(_)
NumDigits(n) == IF n < 10 THEN 1 ELSE 1 + NumDigits(n \div 10)

\* bytes json_append_escaped writes for one character
EscapedCharLen(c) ==
    IF c \in {34, 92, 8, 12, 10, 13, 9} THEN 2
    ELSE IF c < 32 THEN 6 ELSE 1

RECURSIVE EscapedLen(_)
EscapedLen(s) == IF s = <<>> THEN 0 ELSE EscapedCharLen(Head(s)) + EscapedLen(Tail(s))

\* decimal digits of a uint32_t
U32Digits(x) ==
    IF x.hi < 32768 THEN NumDigits(x.hi * LIMB + x.lo) ELSE 10

\* "key":value
sds_json_add_uint(w, key, value) ==
    json_append(WithComma(w), [Tok(key, 0, <<>>) EXCEPT !.t = value],
                1 + KeyLen(key) + 2 + U32Digits(value))

\* "key":"value"
sds_json_add_string(w, key, value) ==
    json_append(WithComma(w), Tok(key, 0, value), 1 + KeyLen(key) + 3 + EscapedLen(value) + 1)

\* "key":true / "key":false
sds_json_add_bool(w, key, value) ==
    json_append(WithComma(w), Tok(key, IF value THEN 1 ELSE 0, <<>>),
                1 + KeyLen(key) + 2 + (IF value THEN 4 ELSE 5))

sds_json_has_error(w) == w.error
sds_json_get_length(w) == w.pos

(* ---------------- JSON writer, byte by byte (sds_json.c) ---------------- *)

\* The writer above appends whole members; here the writer is followed byte
\* by byte.  Characters are their codes, 0 is the terminating NUL, and a
\* byte of memory nobody has written holds -1.  The memory starts at the
\* buffer and goes on behind it; size is the size the writer was given.

\* largest buffer explored
MaxSize == 8
\* the bytes of memory followed
Cells == 0..(MaxSize + 7)

sds_json_writer_init_bytes(size) ==
    [size |-> size, pos |-> 0, error |-> FALSE,
     buffer |-> [idx \in Cells |-> IF size > 0 /\ idx = 0 THEN 0 ELSE 0 - 1]]

\* memcpy(w->buffer + w->pos, str, len); w->pos += len; w->buffer[w->pos] = 0
store(w, str) ==
    [w EXCEPT
       !.buffer = [idx \in Cells |->
                      IF idx >= w.pos /\ idx < w.pos + Len(str)
                      THEN str[idx - w.pos + 1]
                      ELSE IF idx = w.pos + Len(str) THEN 0
                      ELSE w.buffer[idx]],
       !.pos = w.pos + Len(str)]

\* mutant: a text that ends at the last byte of the buffer is accepted
json_append_str_tight(w, str) ==
    IF w.error THEN w
    ELSE IF w.pos + Len(str) > w.size THEN [w EXCEPT !.error = TRUE]
    ELSE store(w, str)

\* json_append
json_append_str(w, str) ==
    IF w.error THEN w
    ELSE IF w.pos + Len(str) >= w.size THEN [w EXCEPT !.error = TRUE]
    ELSE store(w, str)

json_append_char(w, c) ==
    IF w.error THEN w
    ELSE IF w.pos + 1 >= w.size THEN [w EXCEPT !.error = TRUE]
    ELSE store(w, <<c>>)

\* the characters json_append_escaped writes with a backslash: " \ and the
\* control characters \b \f \n \r \t, with the letter that follows it
escape_seq(c) ==
    CASE c = 34 -> <<92, 34>>
      [] c = 92 -> <<92, 92>>
      [] c = 8 -> <<92, 98>>
      [] c = 12 -> <<92, 102>>
      [] c = 10 -> <<92, 110>>
      [] c = 13 -> <<92, 114>>
      [] c = 9 -> <<92, 116>>
      [] OTHER -> <<>>

hex_digit(n) == IF n < 10 THEN 48 + n ELSE 97 + n - 10

\* \u00XX
unicode_seq(c) == <<92, 117, 48, 48, hex_digit(c \div 16), hex_digit(c % 16)>>

\* the loop of json_append_escaped
RECURSIVE escaped_loop(_, _)
escaped_loop(w, str) ==
    IF str = <<>> THEN w
    ELSE IF escape_seq(Head(str)) # <<>>
    THEN IF w.pos + 2 >= w.size THEN [w EXCEPT !.error = TRUE]
         ELSE escaped_loop(store(w, escape_seq(Head(str))), Tail(str))
    ELSE IF Head(str) < 32
    THEN IF w.pos + 6 >= w.size THEN [w EXCEPT !.error = TRUE]
         ELSE escaped_loop(store(w, unicode_seq(Head(str))), Tail(str))
    ELSE escaped_loop(json_append_char(w, Head(str)), Tail(str))

json_append_escaped(w, str) == IF w.error THEN w ELSE escaped_loop(w, str)

needs_comma_byte(w) ==
    IF w.pos = 0 THEN FALSE ELSE w.buffer[w.pos - 1] \notin {123, 91}

\* if (needs_comma(w)) json_append_char(w, ',')
comma(w) == IF needs_comma_byte(w) THEN json_append_char(w, 44) ELSE w

\* snprintf(num, sizeof(num), "%u", value)
RECURSIVE snprintf_u(_)
snprintf_u(value) ==
    IF value < 10 THEN <<48 + value>>
    ELSE Append(snprintf_u(value \div 10), 48 + (value % 10))

start_object_bytes(w) == json_append_char(w, 123)
end_object_bytes(w) == json_append_char(w, 125)

add_string_bytes(w, key, value) ==
    json_append_char(
        json_append_escaped(
            json_append_str(
                json_append_str(json_append_char(comma(w), 34), key),
                <<34, 58, 34>>),
            value),
        34)

add_uint_bytes(w, key, value) ==
    json_append_str(
        json_append_str(
            json_append_str(json_append_char(comma(w), 34), key),
            <<34, 58>>),
        snprintf_u(value))

\* "true" or "false"
bool_text(value) ==
    IF value THEN <<116, 114, 117, 101>> ELSE <<102, 97, 108, 115, 101>>

add_bool_bytes(w, key, value) ==
    json_append_str(
        json_append_str(
            json_append_str(json_append_char(comma(w), 34), key),
            <<34, 58>>),
        bool_text(value))

\* a call of a writer function
writer_call(w, op) ==
    CASE op.f = "start_object" -> start_object_bytes(w)
      [] op.f = "end_object" -> end_object_bytes(w)
      [] op.f = "add_string" -> add_string_bytes(w, op.key, op.value)
      [] op.f = "add_uint" -> add_uint_bytes(w, op.key, op.number)
      [] op.f = "add_bool" -> add_bool_bytes(w, op.key, op.flag)

(* ---------------- sections and their serializers ---------------- *)

\* section contents whose JSON text is longer than the message buffer
BigVal == MaxVal + 1

\* length of the JSON text the table's serializer writes for a section value
BodyLen(v) == IF v = BigVal THEN SDS_MSG_BUFFER_SIZE ELSE 8 + NumDigits(v)

\* the table's SdsSerializeFunc: writes the fields of the section
serialize_section(v, w) == json_append(WithComma(w), Tok("body", v, <<>>), BodyLen(v))

\* a payload in which sds_json_find_field finds no section field: the empty
\* payload, or text such as {not valid json at all
NoBody == 0 - 1

\* a payload that is not JSON, the closing brace is missing, but in which
\* sds_json_find_field finds the section field with the number v behind it
Unclosed(v) == NoBody - 1 - v

\* the payload is empty or it is not JSON
Malformed(body) == body <= NoBody

\* sds_json_get_uint_field: the number behind the field, NoBody if
\* sds_json_find_field or sds_json_parse_uint finds none
sds_json_get_uint_field(body) ==
    IF body = NoBody THEN NoBody
    ELSE IF body < NoBody THEN NoBody - 1 - body
    ELSE body

\* the table's SdsDeserializeFunc: fields found in the payload overwrite the
\* section, fields not found keep their value
deserialize_section(old, body) ==
    IF sds_json_get_uint_field(body) = NoBody THEN old
    ELSE sds_json_get_uint_field(body)

\* mutant: every section is taken as changed
memcmp_always_differs(section, shadow, size) == size > 0

\* memcmp(section, shadow, size) != 0
memcmp_differs(section, shadow, size) == size > 0 /\ section # shadow

\* memcpy(shadow, section, size)
memcpy_shadow(shadow, section, size) == IF size > 0 THEN section ELSE shadow

(* ---------------- table metadata registry and table structs ---------------- *)

\* the table types of the registry; struct k is the application's table
\* struct for table type TableName(k)
TableIds == {1, 2}

\* SdsTableMeta of table type k (all sections have the same size; T1 sends
\* heartbeats, T2 does not; T2 asks for a sync interval of its own)
Registry(k) ==
    [table_type |-> TableName(k),
     sync_interval_ms |-> IF k = 1 THEN 1000 ELSE 2000,
     liveness_interval_ms |-> IF k = 1 THEN 2000 ELSE 0,
     config_size |-> 4, state_size |-> 4, status_size |-> 4,
     own_max_status_slots |-> MaxSlots]

sds_find_table_meta(table_type) ==
    {k \in TableIds : Registry(k).table_type = table_type}

\* a status slot of an owner table struct
ZeroSlot == [node_id |-> <<>>, valid |-> FALSE, online |-> FALSE,
             eviction_pending |-> FALSE, last_seen_ms |-> U32Of(0),
             eviction_deadline |-> U32Of(0), status |-> 0]

\* a zero-initialised table struct
ZeroStruct == [config |-> 0, state |-> 0, status |-> 0,
               status_slots |-> [j \in 1..MaxSlots |-> ZeroSlot],
               status_count |-> 0]

(* ---------------- SdsTableContext ---------------- *)

\* memset(ctx, 0, sizeof(*ctx))
ZeroCtx ==
    [active |-> FALSE, table |-> 0, table_type |-> <<>>, role |-> "OWNER",
     sync_interval_ms |-> 0, last_sync_ms |-> U32Of(0),
     liveness_interval_ms |-> 0, last_publish_ms |-> U32Of(0),
     serialize_config |-> FALSE, deserialize_config |-> FALSE,
     serialize_state |-> FALSE, deserialize_state |-> FALSE,
     serialize_status |-> FALSE, deserialize_status |-> FALSE,
     shadow_config |-> 0, shadow_state |-> 0, shadow_status |-> 0,
     config_size |-> 0, state_size |-> 0, status_size |-> 0,
     max_status_slots |-> 0]

TableSlots == 1..SDS_MAX_TABLES

(* ---------------- state ---------------- *)

VARIABLES
    initialized,                \* _initialized
    node_id,                    \* _node_id
    tables,                     \* _tables[SDS_MAX_TABLES]
    table_count,                \* _table_count
    stats,                      \* _stats (errors, reconnect_count)
    reconnect_backoff_ms,       \* _reconnect_backoff_ms
    last_reconnect_attempt_ms,  \* _last_reconnect_attempt_ms
    error_callback,             \* _error_callback != NULL
    version_mismatch_callback,  \* _version_mismatch_callback and what it answers
    eviction_grace_ms,          \* SdsConfig.eviction_grace_ms
    mqtt_connected,             \* transport: connection established
    connect_ok,                 \* transport: a connect attempt succeeds
    publish_ok,                 \* transport: a publish call succeeds
    subs,                       \* transport: the topics subscribed to
    now,                        \* clock: sds_platform_millis()
    mem,                        \* the application's table structs
    sent,                       \* publish calls made by the last operation
    err_calls,                  \* error-callback invocations of the last operation
    cb_calls,                   \* table callbacks invoked by the last operation
    sub_calls,                  \* subscribe and unsubscribe calls of the last operation
    ret,                        \* return value of the last API call
    ticks,                      \* clock advances so far
    cfg_hist,                   \* history: config publishes of each registration
    offline_change,             \* history: sections written while disconnected
    beat,                       \* history: the last operation sent a heartbeat
    lwt_hist,                   \* history: when the last will of a device arrived
    inbound,                    \* history: the message the last operation delivered
    delivering,                 \* delivery thread: the message on_mqtt_message is working on
    last_status_ms,             \* history: clock at the last status publish (where followed)
    writer                      \* an SdsJsonWriter of the application and its buffer

vars == <<initialized, node_id, tables, table_count, stats, reconnect_backoff_ms,
          last_reconnect_attempt_ms, error_callback, version_mismatch_callback,
          eviction_grace_ms, mqtt_connected, connect_ok, publish_ok, subs, now,
          mem, sent, err_calls, cb_calls, sub_calls, ret, ticks,
          cfg_hist, offline_change, beat, lwt_hist, inbound, delivering,
          last_status_ms, writer>>

core_vars == <<initialized, node_id, tables, table_count, stats,
               reconnect_backoff_ms, last_reconnect_attempt_ms>>

\* what the application has configured
app_vars == <<error_callback, version_mismatch_callback, eviction_grace_ms>>

Sections == {"config", "state", "status"}

\* device ids whose last will is followed
Devices == {Dev1, Dev2}

\* no last will of the device is outstanding for the table
NoLwt == [seen |-> FALSE, at |-> U32Of(0)]

\* no message was delivered
NoMsg == [section |-> "none"]

\* the delivery thread is outside on_mqtt_message
NoDelivery == [slot |-> 0 - 1]

\* history of a registration: config publish calls made for it while the
\* application has not changed the config bytes since it registered
NoHist == [count |-> 0, touched |-> FALSE]

\* clock values the node may be started at (one of them shortly before the wrap)
StartTimes == {U32Of(0), [hi |-> LIMB - 1, lo |-> LIMB - 1500]}

Init ==
    /\ initialized = FALSE
    /\ node_id = <<>>
    /\ tables = [i \in TableSlots |-> ZeroCtx]
    /\ table_count = 0
    /\ stats = [errors |-> 0, reconnect_count |-> 0]
    /\ reconnect_backoff_ms = 0
    /\ last_reconnect_attempt_ms = U32Of(0)
    /\ error_callback = FALSE
    /\ version_mismatch_callback = "NULL"
    /\ eviction_grace_ms = 0
    /\ mqtt_connected = FALSE
    /\ connect_ok = TRUE
    /\ publish_ok = TRUE
    /\ subs = {}
    /\ now \in StartTimes
    /\ mem = [k \in TableIds |-> ZeroStruct]
    /\ sent = <<>>
    /\ err_calls = <<>>
    /\ cb_calls = <<>>
    /\ sub_calls = <<>>
    /\ ret = "none"
    /\ ticks = 0
    /\ cfg_hist = [i \in TableSlots |-> NoHist]
    /\ offline_change = [i \in TableSlots |-> [sec \in Sections |-> NoBody]]
    /\ beat = FALSE
    /\ lwt_hist = [k \in TableIds |-> [d \in Devices |-> NoLwt]]
    /\ inbound = NoMsg
    /\ delivering = NoDelivery
    /\ last_status_ms = U32Of(0)
    /\ writer = sds_json_writer_init_bytes(0)

(* ---------------- transport (sds_platform_mock.c) ---------------- *)

\* sds_platform_mqtt_publish: the result the transport reports
sds_platform_mqtt_publish == publish_ok /\ mqtt_connected

\* the topic sds/<table_type>/<section>
Topic(table_type, section) == [table_type |-> table_type, section |-> section]

\* a subscribe or unsubscribe call as the transport sees it
SubCall(op, topic) == [op |-> op, topic |-> topic]

\* sds_platform_mqtt_subscribe and sds_platform_mqtt_unsubscribe: the
\* transport's subscriptions after one call
mqtt_subscription(set, call, connected) ==
    IF ~connected THEN set
    ELSE IF call.op = "unsubscribe" THEN set \ {call.topic}
    ELSE IF call.topic \in set \/ Cardinality(set) < SDS_MOCK_MAX_SUBSCRIPTIONS
    THEN set \union {call.topic}
    ELSE set

\* the transport's subscriptions after a sequence of calls
RECURSIVE mqtt_subscriptions(_, _, _)
mqtt_subscriptions(set, calls, connected) ==
    IF calls = <<>> THEN set
    ELSE mqtt_subscriptions(mqtt_subscription(set, Head(calls), connected),
                            Tail(calls), connected)

\* a publish call as the transport sees it, with the result it reported
PubRec(section, table_type, node, w, retained, ok) ==
    Once(w, LAMBDA x :
        [section |-> section, table_type |-> table_type, node |-> node,
         payload |-> x.buf, len |-> sds_json_get_length(x),
         retained |-> retained, ok |-> ok])

(* ---------------- sync_table ---------------- *)

ConfigPayload(v, t) ==
    sds_json_end_object(
      serialize_section(v,
        sds_json_add_string(
          sds_json_add_uint(
            sds_json_start_object(sds_json_writer_init(SDS_MSG_BUFFER_SIZE)),
            "ts", t),
          "from", node_id)))

StatePayload(v, t) ==
    sds_json_end_object(
      serialize_section(v,
        sds_json_add_string(
          sds_json_add_uint(
            sds_json_start_object(sds_json_writer_init(SDS_MSG_BUFFER_SIZE)),
            "ts", t),
          "node", node_id)))

\* "unknown", the default _schema_version
SchemaVersion == <<117, 110, 107, 110, 111, 119, 110>>

StatusPayload(v, t) ==
    sds_json_end_object(
      serialize_section(v,
        sds_json_add_string(
          sds_json_add_bool(
            sds_json_add_uint(
              sds_json_start_object(sds_json_writer_init(SDS_MSG_BUFFER_SIZE)),
              "ts", t),
            "online", TRUE),
          "sv", SchemaVersion)))

\* r is the running result of sync_table: the context, the publish calls
\* made, the errors notified and published_something

\* owner publishes config (sync_table, first block)
sync_config(r0, m, t, ok) ==
    Once(r0, LAMBDA r :
    IF /\ r.ctx.role = "OWNER"
       /\ r.ctx.serialize_config /\ r.ctx.config_size > 0
       /\ memcmp_differs(m.config, r.ctx.shadow_config, r.ctx.config_size)
    THEN Once(ConfigPayload(m.config, t), LAMBDA w :
         IF sds_json_has_error(w)
         THEN [r EXCEPT !.errs = Append(@, "BUFFER_FULL")]
         ELSE [r EXCEPT
                 !.sent = Append(@, PubRec("config", r.ctx.table_type, <<>>, w, TRUE, ok)),
                 !.ctx.shadow_config = memcpy_shadow(@, m.config, r.ctx.config_size),
                 !.pub = TRUE])
    ELSE r)

\* all nodes can publish state (sync_table, second block)
sync_state(r0, m, t, ok) ==
    Once(r0, LAMBDA r :
    IF /\ r.ctx.serialize_state /\ r.ctx.state_size > 0
       /\ memcmp_differs(m.state, r.ctx.shadow_state, r.ctx.state_size)
    THEN Once(StatePayload(m.state, t), LAMBDA w :
         IF sds_json_has_error(w)
         THEN [r EXCEPT !.errs = Append(@, "BUFFER_FULL")]
         ELSE [r EXCEPT
                 !.sent = Append(@, PubRec("state", r.ctx.table_type, <<>>, w, FALSE, ok)),
                 !.ctx.shadow_state = memcpy_shadow(@, m.state, r.ctx.state_size),
                 !.pub = TRUE])
    ELSE r)

\* mutant: the liveness timer expires one millisecond late
liveness_expired_late(ctx, t) ==
    /\ ctx.liveness_interval_ms > 0
    /\ U32Geq(U32Sub(t, ctx.last_publish_ms), ctx.liveness_interval_ms + 1)

\* liveness timer of a device registration expired
liveness_expired(ctx, t) ==
    /\ ctx.liveness_interval_ms > 0
    /\ U32Geq(U32Sub(t, ctx.last_publish_ms), ctx.liveness_interval_ms)

\* devices publish status (sync_table, third block)
sync_status(r0, m, t, ok) ==
    Once(r0, LAMBDA r :
    IF /\ r.ctx.role = "DEVICE"
       /\ r.ctx.serialize_status /\ r.ctx.status_size > 0
       /\ \/ memcmp_differs(m.status, r.ctx.shadow_status, r.ctx.status_size)
          \/ liveness_expired(r.ctx, t)
    THEN Once(StatusPayload(m.status, t), LAMBDA w :
         IF sds_json_has_error(w)
         THEN [r EXCEPT !.errs = Append(@, "BUFFER_FULL")]
         ELSE [r EXCEPT
                 !.sent = Append(@, PubRec("status", r.ctx.table_type, node_id, w, FALSE, ok)),
                 !.ctx.shadow_status = memcpy_shadow(@, m.status, r.ctx.status_size),
                 !.pub = TRUE])
    ELSE r)

\* mutant: status is synced before state and config
sync_table_reordered(ctx, m, t, ok) ==
    Once(sync_config(sync_state(sync_status(
             [ctx |-> ctx, sent |-> <<>>, errs |-> <<>>, pub |-> FALSE],
             m, t, ok), m, t, ok), m, t, ok),
         LAMBDA r3 : [r3 EXCEPT !.ctx.last_publish_ms = IF r3.pub THEN t ELSE @])

sync_table(ctx, m, t, ok) ==
    Once(sync_status(sync_state(sync_config(
             [ctx |-> ctx, sent |-> <<>>, errs |-> <<>>, pub |-> FALSE],
             m, t, ok), m, t, ok), m, t, ok),
         LAMBDA r3 : [r3 EXCEPT !.ctx.last_publish_ms = IF r3.pub THEN t ELSE @])

\* mutant: the clock is compared with the time the next sync falls due
sync_due_deadline(ctx, t) ==
    LET due == U32Add(ctx.last_sync_ms, ctx.sync_interval_ms) IN
    ctx.active /\ (due.hi < t.hi \/ (due.hi = t.hi /\ due.lo <= t.lo))

\* the table loop of sds_loop: a slot is synced when it is active and its
\* sync interval has elapsed (sync_table reads and writes only its own slot)
sync_due(ctx, t) ==
    ctx.active /\ U32Geq(U32Sub(t, ctx.last_sync_ms), ctx.sync_interval_ms)

\* the contexts after the table loop
sync_tables(t, ok) ==
    [i \in TableSlots |->
        IF sync_due(tables[i], t)
        THEN [sync_table(tables[i], mem[tables[i].table], t, ok).ctx
                 EXCEPT !.last_sync_ms = t]
        ELSE tables[i]]

\* the publish calls (what = "sent") or the notified errors (what = "errs")
\* of the table loop from slot i on, in slot order
RECURSIVE sync_calls(_, _, _, _)
sync_calls(i, what, t, ok) ==
    IF i > SDS_MAX_TABLES THEN <<>>
    ELSE (IF sync_due(tables[i], t)
          THEN sync_table(tables[i], mem[tables[i].table], t, ok)[what]
          ELSE <<>>) \o sync_calls(i + 1, what, t, ok)

\* mutant: the errors are reported to the callback but not counted
notify_errors_uncounted(errs) ==
    /\ stats' = stats
    /\ err_calls' = IF error_callback THEN errs ELSE <<>>

\* mutant: the callback is invoked twice for each error
notify_errors_twice(errs) ==
    /\ stats' = [stats EXCEPT !.errors = @ + Len(errs)]
    /\ err_calls' = IF error_callback THEN errs \o errs ELSE <<>>

\* notify_error for a sequence of errors: stats.errors++ and the callback
notify_errors(errs) ==
    /\ stats' = [stats EXCEPT !.errors = @ + Len(errs)]
    /\ err_calls' = IF error_callback THEN errs ELSE <<>>

(* ---------------- sds_init ---------------- *)

\* observations that every operation starts from
NoCalls ==
    sent' = <<>> /\ err_calls' = <<>> /\ cb_calls' = <<>> /\ sub_calls' = <<>>

\* mutant: a second sds_init takes the new node id
sds_init_again(cfg_node_id) ==
    /\ node_id' = strncpy(cfg_node_id, SDS_MAX_NODE_ID_LEN - 1)
    /\ ret' = IF initialized THEN "ERR_ALREADY_INITIALIZED" ELSE "OK"
    /\ initialized' = TRUE
    /\ mqtt_connected' = TRUE
    /\ NoCalls
    /\ UNCHANGED <<tables, table_count, stats, reconnect_backoff_ms,
                   last_reconnect_attempt_ms, app_vars, connect_ok, publish_ok,
                   subs, now, mem, ticks>>

sds_init(cfg_node_id) ==
    IF initialized
    THEN /\ ret' = "ERR_ALREADY_INITIALIZED"
         /\ NoCalls
         /\ UNCHANGED <<core_vars, app_vars, mqtt_connected, connect_ok,
                        publish_ok, subs, now, mem, ticks>>
    ELSE /\ node_id' = strncpy(cfg_node_id, SDS_MAX_NODE_ID_LEN - 1)
         /\ tables' = [i \in TableSlots |-> ZeroCtx]
         /\ table_count' = 0
         /\ stats' = [errors |-> 0, reconnect_count |-> 0]
         /\ reconnect_backoff_ms' = 0
         /\ last_reconnect_attempt_ms' = U32Of(0)
         /\ mqtt_connected' = connect_ok
         /\ initialized' = connect_ok
         /\ ret' = IF connect_ok THEN "OK" ELSE "ERR_MQTT_CONNECT_FAILED"
         /\ NoCalls
         /\ UNCHANGED <<app_vars, connect_ok, publish_ok, subs, now, mem, ticks>>

(* ---------------- sds_loop ---------------- *)

\* the topics of a table, in the order subscribe_table_topics and
\* unsubscribe_table_topics go through them
table_topics(ctx) ==
    IF ctx.role = "DEVICE" THEN <<Topic(ctx.table_type, "config")>>
    ELSE <<Topic(ctx.table_type, "state"), Topic(ctx.table_type, "status/+")>>

subscribe_table_topics(ctx) ==
    [n \in 1..Len(table_topics(ctx)) |-> SubCall("subscribe", table_topics(ctx)[n])]

unsubscribe_table_topics(ctx) ==
    [n \in 1..Len(table_topics(ctx)) |-> SubCall("unsubscribe", table_topics(ctx)[n])]

\* mutant: the reconnect subscribes nothing again
resubscribe_nothing(i) == <<>>

\* the subscribe calls of a successful reconnect, for the table slots from i on
RECURSIVE resubscribe(_)
resubscribe(i) ==
    IF i > SDS_MAX_TABLES THEN <<>>
    ELSE (IF tables[i].active THEN subscribe_table_topics(tables[i]) ELSE <<>>)
         \o resubscribe(i + 1)

\* mutant: a reconnect is counted twice
count_reconnect_twice(st) == [st EXCEPT !.reconnect_count = @ + 2]

\* _stats.reconnect_count++
count_reconnect(st) == [st EXCEPT !.reconnect_count = @ + 1]

\* mutant: the backoff doubles without a cap
loop_reconnect_uncapped ==
    IF reconnect_backoff_ms > 0
       /\ ~U32Geq(U32Sub(now, last_reconnect_attempt_ms), reconnect_backoff_ms)
    THEN /\ NoCalls
         /\ UNCHANGED <<core_vars, mqtt_connected, subs>>
    ELSE /\ last_reconnect_attempt_ms' = now
         /\ IF connect_ok
            THEN /\ stats' = count_reconnect(stats)
                 /\ reconnect_backoff_ms' = 0
                 /\ mqtt_connected' = TRUE
                 /\ sub_calls' = resubscribe(1)
                 /\ subs' = mqtt_subscriptions(subs, resubscribe(1), TRUE)
                 /\ sent' = <<>>
                 /\ err_calls' = <<>>
                 /\ cb_calls' = <<>>
            ELSE /\ reconnect_backoff_ms' =
                        IF reconnect_backoff_ms = 0 THEN SDS_RECONNECT_INITIAL_MS
                        ELSE reconnect_backoff_ms * SDS_RECONNECT_MULTIPLIER
                 /\ notify_errors(<<"MQTT_DISCONNECTED">>)
                 /\ sent' = <<>>
                 /\ cb_calls' = <<>>
                 /\ sub_calls' = <<>>
                 /\ UNCHANGED <<mqtt_connected, subs>>
         /\ UNCHANGED <<initialized, node_id, tables, table_count>>

\* the reconnect branch of sds_loop (transport not connected)
\* the backoff test of sds_loop at time t: it is not yet time to retry
backoff_running(last, backoff, t) ==
    backoff > 0 /\ ~U32Geq(U32Sub(t, last), backoff)

loop_reconnect ==
    IF backoff_running(last_reconnect_attempt_ms, reconnect_backoff_ms, now)
    THEN /\ NoCalls
         /\ UNCHANGED <<core_vars, mqtt_connected, subs>>
    ELSE /\ last_reconnect_attempt_ms' = now
         /\ IF connect_ok
            THEN /\ stats' = count_reconnect(stats)
                 /\ reconnect_backoff_ms' = 0
                 /\ mqtt_connected' = TRUE
                 /\ sub_calls' = resubscribe(1)
                 /\ subs' = mqtt_subscriptions(subs, resubscribe(1), TRUE)
                 /\ sent' = <<>>
                 /\ err_calls' = <<>>
                 /\ cb_calls' = <<>>
            ELSE /\ reconnect_backoff_ms' =
                        IF reconnect_backoff_ms = 0 THEN SDS_RECONNECT_INITIAL_MS
                        ELSE Min(reconnect_backoff_ms * SDS_RECONNECT_MULTIPLIER,
                                 SDS_RECONNECT_MAX_MS)
                 /\ notify_errors(<<"MQTT_DISCONNECTED">>)
                 /\ sent' = <<>>
                 /\ cb_calls' = <<>>
                 /\ sub_calls' = <<>>
                 /\ UNCHANGED <<mqtt_connected, subs>>
         /\ UNCHANGED <<initialized, node_id, tables, table_count>>

\* the sync branch of sds_loop (transport connected)
loop_sync ==
    /\ tables' = sync_tables(now, sds_platform_mqtt_publish)
    /\ sent' = sync_calls(1, "sent", now, sds_platform_mqtt_publish)
    /\ notify_errors(sync_calls(1, "errs", now, sds_platform_mqtt_publish))
    /\ cb_calls' = <<>>
    /\ sub_calls' = <<>>
    /\ UNCHANGED <<initialized, node_id, table_count, reconnect_backoff_ms,
                   last_reconnect_attempt_ms, mqtt_connected, subs>>

\* mutant: sds_loop does not look at _initialized
sds_loop_uninitialized ==
    /\ IF ~mqtt_connected THEN loop_reconnect ELSE loop_sync
    /\ ret' = "none"
    /\ UNCHANGED <<app_vars, connect_ok, publish_ok, now, mem, ticks>>

sds_loop ==
    /\ IF ~initialized
       THEN NoCalls /\ UNCHANGED <<core_vars, mqtt_connected, subs>>
       ELSE IF ~mqtt_connected THEN loop_reconnect ELSE loop_sync
    /\ ret' = "none"
    /\ UNCHANGED <<app_vars, connect_ok, publish_ok, now, mem, ticks>>

(* ---------------- sds_shutdown ---------------- *)

\* {"online":false,"node":"<node_id>","ts":<now>}, printed into a buffer of
\* 128 bytes (a node id holds no character that JSON escapes)
OfflinePayload(t) ==
    sds_json_end_object(
      sds_json_add_uint(
        sds_json_add_string(
          sds_json_add_bool(sds_json_start_object(sds_json_writer_init(128)),
                            "online", FALSE),
          "node", node_id),
        "ts", t))

\* the unsubscribe calls of sds_shutdown, for the table slots from i on
RECURSIVE shutdown_unsubscribe(_)
shutdown_unsubscribe(i) ==
    IF i > SDS_MAX_TABLES THEN <<>>
    ELSE (IF tables[i].active THEN unsubscribe_table_topics(tables[i]) ELSE <<>>)
         \o shutdown_unsubscribe(i + 1)

\* the graceful offline publish of sds_shutdown
shutdown_publish ==
    IF mqtt_connected
    THEN <<PubRec("lwt", <<>>, node_id, OfflinePayload(now), TRUE,
                  sds_platform_mqtt_publish)>>
    ELSE <<>>

\* mutant: the tables are unsubscribed before the offline message is published
shutdown_calls_publish_last == shutdown_unsubscribe(1) \o shutdown_publish

\* the transport calls of sds_shutdown, in the order it makes them
shutdown_calls == shutdown_publish \o shutdown_unsubscribe(1)

\* a transport call is a publish call (not a subscribe or unsubscribe call)
IsPublish(call) == "op" \notin DOMAIN call
IsSubCall(call) == "op" \in DOMAIN call

sds_shutdown ==
    /\ IF ~initialized
       THEN /\ NoCalls
            /\ UNCHANGED <<initialized, tables, table_count, mqtt_connected, subs>>
       ELSE /\ sent' = SelectSeq(shutdown_calls, IsPublish)
            /\ sub_calls' = SelectSeq(shutdown_calls, IsSubCall)
            /\ subs' = mqtt_subscriptions(subs, SelectSeq(shutdown_calls, IsSubCall),
                                          mqtt_connected)
            /\ tables' = [i \in TableSlots |-> [tables[i] EXCEPT !.active = FALSE]]
            /\ table_count' = 0
            /\ mqtt_connected' = FALSE
            /\ initialized' = FALSE
            /\ err_calls' = <<>>
            /\ cb_calls' = <<>>
    /\ ret' = "none"
    /\ UNCHANGED <<node_id, stats, reconnect_backoff_ms, last_reconnect_attempt_ms,
                   app_vars, connect_ok, publish_ok, now, mem, ticks>>

(* ---------------- registration ---------------- *)

\* find_table: the first active slot with this table type, 0 for NULL
find_table(tbls, table_type) ==
    LET S == {i \in TableSlots : tbls[i].active /\ tbls[i].table_type = table_type}
    IN  IF S = {} THEN 0 ELSE CHOOSE i \in S : \A j \in S : i <= j

\* options == NULL
NoOptions == 0 - 1

\* mutant: with no inactive slot the last slot is taken over
alloc_index_last(tbls) ==
    LET S == {i \in TableSlots : ~tbls[i].active}
    IN  IF S = {} THEN SDS_MAX_TABLES ELSE CHOOSE i \in S : \A j \in S : i <= j

\* alloc_table_slot: the first inactive slot (0 for NULL) and its new contents
alloc_index(tbls) ==
    LET S == {i \in TableSlots : ~tbls[i].active}
    IN  IF S = {} THEN 0 ELSE CHOOSE i \in S : \A j \in S : i <= j

alloc_table_slot(table, table_type, role, options) ==
    [ZeroCtx EXCEPT
       !.active = TRUE,
       !.table = table,
       !.table_type = strncpy(table_type, SDS_MAX_TABLE_TYPE_LEN - 1),
       !.role = role,
       !.sync_interval_ms = IF options # NoOptions THEN options
                            ELSE SDS_DEFAULT_SYNC_INTERVAL_MS,
       !.liveness_interval_ms = SDS_DEFAULT_LIVENESS_INTERVAL_MS,
       !.last_sync_ms = now,
       !.last_publish_ms = now]

\* mutant: the initial config publish leaves the shadow untouched
initial_config_publish_no_shadow(ctx, m) ==
    LET w == ConfigPayload(m.config, now) IN
    [ctx |-> ctx,
     sent |-> <<PubRec("config", ctx.table_type, <<>>, w, TRUE,
                       sds_platform_mqtt_publish)>>]

\* the owner's initial config publish of sds_register_table_ex
initial_config_publish(ctx, m) ==
    LET w == ConfigPayload(m.config, now) IN
    [ctx |-> [ctx EXCEPT !.shadow_config = memcpy_shadow(@, m.config, ctx.config_size)],
     sent |-> <<PubRec("config", ctx.table_type, <<>>, w, TRUE,
                       sds_platform_mqtt_publish)>>]

\* mutant: the slot of a refused registration stays active
release_slot_never(ctx) == ctx

\* the slot of a registration refused for its section sizes is given back
release_slot(ctx) == [ctx EXCEPT !.active = FALSE]

\* sds_activate_table_subscriptions: the subscribe calls of a registration
sds_activate_table_subscriptions(ctx) ==
    IF mqtt_connected THEN subscribe_table_topics(ctx) ELSE <<>>

\* sds_register_table_ex: the return value, the new _tables and _table_count,
\* the subscribe calls and the publish calls; sz are the section sizes, fn
\* the codec functions
sds_register_table_ex(table, table_type, role, options, sz, fn) ==
    LET unchanged(r) == [ret |-> r, tables |-> tables,
                         table_count |-> table_count, sent |-> <<>>,
                         sub_calls |-> <<>>]
        i == alloc_index(tables)
        ctx0 == alloc_table_slot(table, table_type, role, options)
        ctx1 == [ctx0 EXCEPT
                   !.config_size = sz.config, !.state_size = sz.state,
                   !.status_size = sz.status,
                   !.serialize_config = fn.serialize_config,
                   !.deserialize_config = fn.deserialize_config,
                   !.serialize_state = fn.serialize_state,
                   !.deserialize_state = fn.deserialize_state,
                   !.serialize_status = fn.serialize_status,
                   !.deserialize_status = fn.deserialize_status,
                   !.shadow_config = 0, !.shadow_state = 0, !.shadow_status = 0]
        p == IF role = "OWNER" /\ fn.serialize_config /\ sz.config > 0
             THEN initial_config_publish(ctx1, mem[table])
             ELSE [ctx |-> ctx1, sent |-> <<>>]
    IN  IF ~initialized THEN unchanged("ERR_NOT_INITIALIZED")
        ELSE IF table = 0 \/ table_type = <<>> THEN unchanged("ERR_INVALID_TABLE")
        ELSE IF find_table(tables, table_type) # 0
             THEN unchanged("ERR_TABLE_ALREADY_REGISTERED")
        ELSE IF i = 0 THEN unchanged("ERR_MAX_TABLES_REACHED")
        ELSE IF \/ sz.config > SDS_SHADOW_SIZE \/ sz.state > SDS_SHADOW_SIZE
                \/ sz.status > SDS_SHADOW_SIZE
             THEN [ret |-> "ERR_SECTION_TOO_LARGE",
                   tables |-> [tables EXCEPT ![i] = release_slot(ctx0)],
                   table_count |-> table_count, sent |-> <<>>,
                   sub_calls |-> <<>>]
        ELSE [ret |-> "OK", tables |-> [tables EXCEPT ![i] = p.ctx],
              table_count |-> table_count + 1, sent |-> p.sent,
              sub_calls |-> sds_activate_table_subscriptions(ctx1)]

\* the codec functions sds_register_table passes for each role
NoFuncs == [serialize_config |-> FALSE, deserialize_config |-> FALSE,
            serialize_state |-> FALSE, deserialize_state |-> FALSE,
            serialize_status |-> FALSE, deserialize_status |-> FALSE]
DeviceFuncs == [NoFuncs EXCEPT !.deserialize_config = TRUE, !.serialize_state = TRUE,
                               !.serialize_status = TRUE]
OwnerFuncs == [NoFuncs EXCEPT !.serialize_config = TRUE, !.deserialize_state = TRUE,
                              !.deserialize_status = TRUE]

\* sds_register_table: registration from the metadata registry
sds_register_table(table, table_type, role, options) ==
    LET metas == sds_find_table_meta(table_type)
        meta == Registry(CHOOSE k \in metas : TRUE)
        r == sds_register_table_ex(table, table_type, role, options,
                 [config |-> meta.config_size, state |-> meta.state_size,
                  status |-> IF role = "DEVICE" THEN meta.status_size ELSE 0],
                 IF role = "DEVICE" THEN DeviceFuncs ELSE OwnerFuncs)
        i == find_table(r.tables, table_type)
        done == IF r.ret = "OK" /\ i # 0
                THEN [r.tables EXCEPT
                        ![i].liveness_interval_ms = meta.liveness_interval_ms,
                        ![i].max_status_slots =
                            IF role = "OWNER" THEN meta.own_max_status_slots ELSE @]
                ELSE r.tables
    IN  /\ IF ~initialized
           THEN /\ ret' = "ERR_NOT_INITIALIZED"
                /\ sent' = <<>>
                /\ sub_calls' = <<>>
                /\ UNCHANGED <<tables, table_count, subs>>
           ELSE IF table = 0 \/ table_type = <<>>
           THEN /\ ret' = "ERR_INVALID_TABLE"
                /\ sent' = <<>>
                /\ sub_calls' = <<>>
                /\ UNCHANGED <<tables, table_count, subs>>
           ELSE IF metas = {}
           THEN /\ ret' = "ERR_TABLE_NOT_FOUND"
                /\ sent' = <<>>
                /\ sub_calls' = <<>>
                /\ UNCHANGED <<tables, table_count, subs>>
           ELSE /\ ret' = r.ret
                /\ sent' = r.sent
                /\ sub_calls' = r.sub_calls
                /\ subs' = mqtt_subscriptions(subs, r.sub_calls, mqtt_connected)
                /\ tables' = done
                /\ table_count' = r.table_count
        /\ err_calls' = <<>>
        /\ cb_calls' = <<>>
        /\ UNCHANGED <<initialized, node_id, stats, reconnect_backoff_ms,
                       last_reconnect_attempt_ms, app_vars, mqtt_connected,
                       connect_ok, publish_ok, now, mem, ticks>>

\* mutant: the table's topics stay subscribed
unsubscribe_on_unregister_never(ctx) == <<>>

\* the unsubscribe calls of sds_unregister_table
unsubscribe_on_unregister(ctx) ==
    IF mqtt_connected THEN unsubscribe_table_topics(ctx) ELSE <<>>

sds_unregister_table(table_type) ==
    LET i == find_table(tables, table_type) IN
    /\ IF ~initialized
       THEN /\ ret' = "ERR_NOT_INITIALIZED"
            /\ sub_calls' = <<>>
            /\ UNCHANGED <<tables, table_count, subs>>
       ELSE IF i = 0
       THEN /\ ret' = "ERR_TABLE_NOT_FOUND"
            /\ sub_calls' = <<>>
            /\ UNCHANGED <<tables, table_count, subs>>
       ELSE /\ sub_calls' = unsubscribe_on_unregister(tables[i])
            /\ subs' = mqtt_subscriptions(subs, unsubscribe_on_unregister(tables[i]),
                                          mqtt_connected)
            /\ tables' = [tables EXCEPT ![i].active = FALSE]
            /\ table_count' = table_count - 1
            /\ ret' = "OK"
    /\ sent' = <<>>
    /\ err_calls' = <<>>
    /\ cb_calls' = <<>>
    /\ UNCHANGED <<initialized, node_id, stats, reconnect_backoff_ms,
                   last_reconnect_attempt_ms, app_vars, mqtt_connected,
                   connect_ok, publish_ok, now, mem, ticks>>

\* sds_on_error: register (TRUE) or clear (FALSE) the error callback
sds_on_error(callback) ==
    /\ error_callback' = callback
    /\ ret' = "none"
    /\ NoCalls
    /\ UNCHANGED <<core_vars, version_mismatch_callback, eviction_grace_ms,
                   mqtt_connected, connect_ok, publish_ok, subs, now, mem, ticks>>

(* ---------------- inbound dispatch ---------------- *)

\* sds_on_version_mismatch: register a callback ("accept" or "reject" is what
\* it answers) or clear it ("NULL")
sds_on_version_mismatch(callback) ==
    /\ version_mismatch_callback' = callback
    /\ ret' = "none"
    /\ NoCalls
    /\ UNCHANGED <<core_vars, error_callback, eviction_grace_ms,
                   mqtt_connected, connect_ok, publish_ok, subs, now, mem, ticks>>

\* an invocation of a table's config, state or status callback (the
\* application has registered its callbacks)
Callback(cb, table_type, from_node) ==
    [cb |-> cb, table_type |-> table_type, from_node |-> from_node]

\* sds_json_get_string_field into a buffer of out_size bytes
get_string_field(value, out_size) == strncpy(value, out_size - 1)

\* mutant: an inbound config is written to the section but not to the shadow
handle_config_message_no_shadow(i, payload) ==
    LET ctx == tables[i]
        k == ctx.table
        v == deserialize_section(mem[k].config, payload.body)
    IN  IF ctx.role # "DEVICE" \/ ~ctx.deserialize_config
        THEN UNCHANGED <<tables, mem>> /\ cb_calls' = <<>>
        ELSE /\ mem' = [mem EXCEPT ![k].config = v]
             /\ UNCHANGED tables
             /\ cb_calls' = <<Callback("config", ctx.table_type, <<>>)>>

handle_config_message(i, payload) ==
    LET ctx == tables[i]
        k == ctx.table
        v == deserialize_section(mem[k].config, payload.body)
    IN  IF ctx.role # "DEVICE" \/ ~ctx.deserialize_config
        THEN UNCHANGED <<tables, mem>> /\ cb_calls' = <<>>
        ELSE /\ mem' = [mem EXCEPT ![k].config = v]
             /\ tables' = [tables EXCEPT
                    ![i].shadow_config = memcpy_shadow(@, v, ctx.config_size)]
             /\ cb_calls' = <<Callback("config", ctx.table_type, <<>>)>>

\* mutant: the node's own state messages are processed like any other
from_self_never(from_node) == FALSE

\* strcmp(from_node, _node_id) == 0
from_self(from_node) == from_node = node_id

\* mutant: a state message is applied whatever the role of the registration
handle_state_message_any_role(i, from_node, payload) ==
    LET ctx == tables[i]
        k == ctx.table
        v == deserialize_section(mem[k].state, payload.body)
    IN  IF ~ctx.deserialize_state \/ from_self(from_node)
        THEN UNCHANGED <<tables, mem>> /\ cb_calls' = <<>>
        ELSE /\ mem' = [mem EXCEPT ![k].state = v]
             /\ tables' = [tables EXCEPT
                    ![i].shadow_state = memcpy_shadow(@, v, ctx.state_size)]
             /\ cb_calls' = <<Callback("state", ctx.table_type, from_node)>>

handle_state_message(i, from_node, payload) ==
    LET ctx == tables[i]
        k == ctx.table
        v == deserialize_section(mem[k].state, payload.body)
    IN  IF ctx.role # "OWNER" \/ ~ctx.deserialize_state \/ from_self(from_node)
        THEN UNCHANGED <<tables, mem>> /\ cb_calls' = <<>>
        ELSE /\ mem' = [mem EXCEPT ![k].state = v]
             /\ tables' = [tables EXCEPT
                    ![i].shadow_state = memcpy_shadow(@, v, ctx.state_size)]
             /\ cb_calls' = <<Callback("state", ctx.table_type, from_node)>>

\* mutant: a slot is allocated without counting it in status_count
find_or_alloc_status_slot_uncounted(ctx, m, from_node) ==
    LET slots == 1..ctx.max_status_slots
        found == {j \in slots : m.status_slots[j].valid
                                /\ m.status_slots[j].node_id = from_node}
        free == {j \in slots : ~m.status_slots[j].valid}
        first(S) == CHOOSE j \in S : \A h \in S : j <= h
    IN  IF ctx.max_status_slots = 0 THEN [slot |-> 0, m |-> m]
        ELSE IF found # {} THEN [slot |-> first(found), m |-> m]
        ELSE IF free # {}
             THEN [slot |-> first(free),
                   m |-> [m EXCEPT
                      !.status_slots[first(free)].node_id =
                          strncpy(from_node, SDS_MAX_NODE_ID_LEN - 1),
                      !.status_slots[first(free)].valid = TRUE,
                      !.status_slots[first(free)].online = TRUE,
                      !.status_slots[first(free)].last_seen_ms = now]]
        ELSE [slot |-> 0, m |-> m]

\* find_or_alloc_status_slot: the slot index (0 for NULL) and the table struct
\* after a possible allocation
find_or_alloc_status_slot(ctx, m, from_node) ==
    LET slots == 1..ctx.max_status_slots
        found == {j \in slots : m.status_slots[j].valid
                                /\ m.status_slots[j].node_id = from_node}
        free == {j \in slots : ~m.status_slots[j].valid}
        first(S) == CHOOSE j \in S : \A h \in S : j <= h
    IN  IF ctx.max_status_slots = 0 THEN [slot |-> 0, m |-> m]
        ELSE IF found # {} THEN [slot |-> first(found), m |-> m]
        ELSE IF free # {}
             THEN [slot |-> first(free),
                   m |-> [m EXCEPT
                      !.status_slots[first(free)].node_id =
                          strncpy(from_node, SDS_MAX_NODE_ID_LEN - 1),
                      !.status_slots[first(free)].valid = TRUE,
                      !.status_slots[first(free)].online = TRUE,
                      !.status_slots[first(free)].last_seen_ms = now,
                      !.status_count = (@ + 1) % 256]]
        ELSE [slot |-> 0, m |-> m]

\* mutant: a message of another schema version is accepted whatever the
\* version-mismatch callback answers
version_rejected_never(remote_version) == FALSE

\* the schema version check of handle_status_message: the message is rejected
version_rejected(remote_version) ==
    /\ remote_version # <<>> /\ remote_version # SchemaVersion
    /\ version_mismatch_callback = "reject"

\* the invocation of the version-mismatch callback, when the remote version
\* differs and a callback is registered
version_calls(remote_version, table_type, from_node) ==
    IF /\ remote_version # <<>> /\ remote_version # SchemaVersion
       /\ version_mismatch_callback # "NULL"
    THEN <<Callback("version_mismatch", table_type, from_node)>>
    ELSE <<>>

\* mutant: the status data is deserialized also when the device is offline
slot_update_always_parses(slot, online, body) ==
    [slot EXCEPT !.online = online,
                 !.last_seen_ms = now,
                 !.status = deserialize_section(@, body)]

\* the slot after handle_status_message has applied a message to it
slot_update(slot, online, body) ==
    [slot EXCEPT !.online = online,
                 !.last_seen_ms = now,
                 !.status = IF online THEN deserialize_section(@, body) ELSE @]

handle_status_message(i, from_node, payload) ==
    LET ctx == tables[i]
        k == ctx.table
        fa == find_or_alloc_status_slot(ctx, mem[k], from_node)
        j == fa.slot
        online == payload.online # "false"
        remote_version == get_string_field(payload.sv, SDS_MAX_VERSION_LEN)
        vcalls == version_calls(remote_version, ctx.table_type, from_node)
    IN  /\ IF ctx.role # "OWNER" \/ ~ctx.deserialize_status
           THEN UNCHANGED mem /\ cb_calls' = <<>>
           ELSE IF version_rejected(remote_version)
           THEN UNCHANGED mem /\ cb_calls' = vcalls
           ELSE /\ IF j = 0 THEN mem' = [mem EXCEPT ![k] = fa.m]
                   ELSE mem' = [mem EXCEPT ![k] =
                      [fa.m EXCEPT !.status_slots[j] =
                          slot_update(@, online, payload.body)]]
                /\ cb_calls' = vcalls \o <<Callback("status", ctx.table_type, from_node)>>
        /\ UNCHANGED tables

\* the age test of sds_is_device_online at time t
seen_within(slot, timeout_ms, t) ==
    ~U32Geq(U32Sub(t, slot.last_seen_ms), timeout_ms)

\* sds_is_device_online for the table struct owner_table (0 for NULL)
sds_is_device_online(owner_table, table_type, id, timeout_ms) ==
    LET i == find_table(tables, table_type)
        S == {j \in 1..tables[i].max_status_slots :
                 /\ mem[owner_table].status_slots[j].valid
                 /\ mem[owner_table].status_slots[j].node_id = id}
        slot == mem[owner_table].status_slots[CHOOSE j \in S : \A h \in S : j <= h]
    IN  /\ owner_table # 0 /\ i # 0
        /\ tables[i].role = "OWNER"
        /\ tables[i].max_status_slots # 0
        /\ S # {}
        /\ slot.online
        /\ seen_within(slot, timeout_ms, now)

\* on_mqtt_message for a topic sds/<table_type>/<section>[/<dev>]
on_mqtt_message(topic, payload) ==
    LET i == find_table(tables, topic.table_type) IN
    /\ initialized /\ mqtt_connected
    /\ IF \/ Len(topic.table_type) = 0
          \/ Len(topic.table_type) >= SDS_MAX_TABLE_TYPE_LEN
          \/ i = 0
       THEN UNCHANGED <<tables, mem>> /\ cb_calls' = <<>>
       ELSE CASE topic.section = "config" -> handle_config_message(i, payload)
              [] topic.section = "state" ->
                    handle_state_message(i,
                        get_string_field(payload.node, SDS_MAX_NODE_ID_LEN), payload)
              [] topic.section = "status" ->
                    handle_status_message(i, topic.dev, payload)
              [] OTHER -> UNCHANGED <<tables, mem>> /\ cb_calls' = <<>>
    /\ sent' = <<>>
    /\ err_calls' = <<>>
    /\ sub_calls' = <<>>
    /\ ret' = "none"
    /\ UNCHANGED <<initialized, node_id, table_count, stats, reconnect_backoff_ms,
                   last_reconnect_attempt_ms, app_vars, mqtt_connected,
                   connect_ok, publish_ok, subs, now, ticks>>

\* mutant: every topic is taken as a topic of the library
has_sds_prefix_always(topic) == TRUE

\* strncmp(topic, "sds/", 4) == 0
has_sds_prefix(topic) == topic.prefix = "sds/"

\* on_mqtt_message for any topic <prefix><table_type>/<section>[/<dev>]
on_mqtt_message_topic(topic, payload) ==
    IF has_sds_prefix(topic)
    THEN on_mqtt_message(topic, payload)
    ELSE /\ initialized /\ mqtt_connected
         /\ NoCalls
         /\ ret' = "none"
         /\ UNCHANGED <<core_vars, app_vars, mqtt_connected, connect_ok,
                        publish_ok, subs, now, mem, ticks>>

(* ---------------- on_mqtt_message on the delivery thread ---------------- *)

\* the transport calls on_mqtt_message from its own thread
\* (mqtt_message_arrived); neither it nor on_mqtt_message, sds_loop,
\* sds_register_table or sds_unregister_table takes a lock, so the
\* operations of the application's thread run between the steps of a handler

\* the handler of the message writes a section of the table struct
deserializes(ctx, topic, payload) ==
    CASE topic.section = "config" -> ctx.role = "DEVICE" /\ ctx.deserialize_config
      [] topic.section = "state" ->
            /\ ctx.role = "OWNER" /\ ctx.deserialize_state
            /\ ~from_self(get_string_field(payload.node, SDS_MAX_NODE_ID_LEN))
      [] OTHER -> FALSE

\* on_mqtt_message from its call to the end of the deserialisation: the
\* registration is looked up and a config or state message is written to
\* the section of the table struct
on_mqtt_message_enter(topic, payload) ==
    LET i == IF \/ Len(topic.table_type) = 0
                \/ Len(topic.table_type) >= SDS_MAX_TABLE_TYPE_LEN
             THEN 0 ELSE find_table(tables, topic.table_type)
        applied == i # 0 /\ deserializes(tables[i], topic, payload)
    IN  /\ initialized /\ mqtt_connected
        /\ delivering = NoDelivery
        /\ mem' = IF applied
                  THEN [mem EXCEPT ![tables[i].table][topic.section] =
                           deserialize_section(@, payload.body)]
                  ELSE mem
        /\ delivering' = [slot |-> i, topic |-> topic, payload |-> payload,
                          applied |-> applied]
        /\ NoCalls
        /\ ret' = "none"
        /\ UNCHANGED <<core_vars, app_vars, mqtt_connected, connect_ok,
                       publish_ok, subs, now, ticks>>

\* memcpy of the section into its shadow through the context pointer the
\* handler holds
copy_shadow(ctx, m, section) ==
    IF section = "config"
    THEN [ctx EXCEPT !.shadow_config = memcpy_shadow(@, m.config, ctx.config_size)]
    ELSE [ctx EXCEPT !.shadow_state = memcpy_shadow(@, m.state, ctx.state_size)]

\* on_mqtt_message from there to its return: the shadow is copied from the
\* section and the callback invoked (a status message is handled here as a
\* whole)
on_mqtt_message_return ==
    LET i == delivering.slot
        topic == delivering.topic
        payload == delivering.payload
    IN  /\ delivering # NoDelivery
        /\ IF i = 0
           THEN UNCHANGED <<tables, mem>> /\ cb_calls' = <<>>
           ELSE IF topic.section = "status"
           THEN handle_status_message(i, topic.dev, payload)
           ELSE IF delivering.applied
           THEN /\ tables' = [tables EXCEPT
                       ![i] = copy_shadow(@, mem[tables[i].table], topic.section)]
                /\ cb_calls' = <<Callback(topic.section, tables[i].table_type,
                                   IF topic.section = "state"
                                   THEN get_string_field(payload.node,
                                                         SDS_MAX_NODE_ID_LEN)
                                   ELSE <<>>)>>
                /\ UNCHANGED mem
           ELSE UNCHANGED <<tables, mem>> /\ cb_calls' = <<>>
        /\ delivering' = NoDelivery
        /\ sent' = <<>>
        /\ err_calls' = <<>>
        /\ sub_calls' = <<>>
        /\ ret' = "none"
        /\ UNCHANGED <<initialized, node_id, table_count, stats,
                       reconnect_backoff_ms, last_reconnect_attempt_ms, app_vars,
                       mqtt_connected, connect_ok, publish_ok, subs, now, ticks>>

(* ---------------- application and environment ---------------- *)

\* the application writes a section of its table struct
AppWrite(k, section, v) ==
    /\ initialized
    /\ mem[k][section] # v
    /\ mem' = [mem EXCEPT ![k][section] = v]
    /\ NoCalls
    /\ ret' = "none"
    /\ UNCHANGED <<core_vars, app_vars, mqtt_connected, connect_ok,
                   publish_ok, subs, now, ticks>>

\* the clock advances by d milliseconds
AdvanceTime(d) ==
    /\ ticks < MaxTicks
    /\ now' = U32Add(now, d)
    /\ ticks' = ticks + 1
    /\ NoCalls
    /\ ret' = "none"
    /\ UNCHANGED <<core_vars, app_vars, mqtt_connected, connect_ok,
                   publish_ok, subs, mem>>

\* the transport loses its connection
ConnectionLost ==
    /\ mqtt_connected
    /\ mqtt_connected' = FALSE
    /\ NoCalls
    /\ ret' = "none"
    /\ UNCHANGED <<core_vars, app_vars, connect_ok, publish_ok, subs, now, mem, ticks>>

\* the broker becomes reachable or unreachable for connect attempts
SetConnectOk(b) ==
    /\ connect_ok # b
    /\ connect_ok' = b
    /\ NoCalls
    /\ ret' = "none"
    /\ UNCHANGED <<core_vars, app_vars, mqtt_connected, publish_ok, subs, now, mem, ticks>>

\* the transport starts or stops reporting failure for publish calls
SetPublishOk(b) ==
    /\ publish_ok # b
    /\ publish_ok' = b
    /\ NoCalls
    /\ ret' = "none"
    /\ UNCHANGED <<core_vars, app_vars, mqtt_connected, connect_ok, subs, now, mem,
                   ticks>>

(* ---------------- history ---------------- *)

\* the shadow copy a registration keeps of a section
Shadow(ctx, sec) ==
    CASE sec = "config" -> ctx.shadow_config
      [] sec = "state" -> ctx.shadow_state
      [] sec = "status" -> ctx.shadow_status

\* the sections sync_table publishes for a registration
Publishes(ctx, sec) ==
    CASE sec = "config" -> ctx.role = "OWNER" /\ ctx.serialize_config /\ ctx.config_size > 0
      [] sec = "state" -> ctx.serialize_state /\ ctx.state_size > 0
      [] sec = "status" -> ctx.role = "DEVICE" /\ ctx.serialize_status /\ ctx.status_size > 0

\* the publish calls of a sequence that are for a section of a table type
CallsFor(calls, table_type, sec) ==
    {n \in 1..Len(calls) : calls[n].table_type = table_type /\ calls[n].section = sec}

\* the payload holds the section bytes v
Carries(payload, v) ==
    \E n \in 1..Len(payload) : payload[n].k = "body" /\ payload[n].n = v

\* the payload is a complete JSON object
Complete(payload) ==
    /\ Len(payload) > 0
    /\ payload[Len(payload)].k = "}"

\* cfg_hist after a step: a new registration starts with the config publish
\* calls of its registration; later calls are counted until the config bytes
\* of its table struct change
CfgHistNext ==
    cfg_hist' = [i \in TableSlots |->
        LET new == tables'[i]
            n == Cardinality(CallsFor(sent', new.table_type, "config"))
        IN  IF ~new.active THEN NoHist
            ELSE IF ~tables[i].active THEN [count |-> n, touched |-> FALSE]
            ELSE IF cfg_hist[i].touched \/ mem'[new.table].config # mem[new.table].config
            THEN [cfg_hist[i] EXCEPT !.touched = TRUE]
            ELSE [cfg_hist[i] EXCEPT !.count = @ + n]]

\* offline_change after a step: the application's write of a published
\* section while the transport is disconnected is recorded with the value
\* written; the record is dropped when a publish call carrying the value
\* succeeds, when the section no longer holds the value or when the
\* registration ends.  (Inbound messages change a struct only together with
\* a callback, so a change of mem without callback is the application's.)
OfflineNext ==
    offline_change' = [i \in TableSlots |-> [sec \in Sections |->
        LET ctx == tables[i]
            old == offline_change[i][sec]
            cur == mem'[ctx.table][sec]
            delivered == \E n \in CallsFor(sent', ctx.table_type, sec) :
                            sent'[n].ok /\ Carries(sent'[n].payload, old)
        IN  IF ~ctx.active \/ ~tables'[i].active THEN NoBody
            ELSE IF cur # mem[ctx.table][sec] /\ cb_calls' = <<>>
            THEN IF ~mqtt_connected /\ Publishes(ctx, sec) /\ cur # Shadow(ctx, sec)
                 THEN cur ELSE NoBody
            ELSE IF old = NoBody \/ cur # old \/ delivered THEN NoBody
            ELSE old]]

\* a device registration whose status bytes equal their shadow and whose
\* liveness timer has expired
HeartbeatDue(ctx) ==
    /\ ctx.active /\ Publishes(ctx, "status")
    /\ mem[ctx.table].status = ctx.shadow_status
    /\ ctx.liveness_interval_ms > 0
    /\ U32Geq(U32Sub(now, ctx.last_publish_ms), ctx.liveness_interval_ms)

\* beat after a step: a status publish call was made for a registration
\* whose heartbeat was due
BeatNext ==
    beat' = \E i \in TableSlots :
               /\ HeartbeatDue(tables[i])
               /\ CallsFor(sent', tables[i].table_type, "status") # {}

\* the valid slots of a table struct that hold the node id
SlotsOf(m, id) ==
    {j \in 1..MaxSlots : m.status_slots[j].valid /\ m.status_slots[j].node_id = id}

\* lwt_hist after a step: a message that fires the status callback for a
\* device and leaves its slot offline (a last will, or a status with
\* online:false) is recorded with its time; the record is dropped when a
\* status leaves the slot online and when the device has no slot
LwtHistNext ==
    lwt_hist' = [k \in TableIds |-> [d \in Devices |->
        LET slots == SlotsOf(mem'[k], d)
            notified == \E n \in 1..Len(cb_calls') :
                           cb_calls'[n] = Callback("status", TableName(k), d)
        IN  IF slots = {} THEN NoLwt
            ELSE IF ~notified THEN lwt_hist[k][d]
            ELSE IF \E j \in slots : ~mem'[k].status_slots[j].online
            THEN [seen |-> TRUE, at |-> now]
            ELSE NoLwt]]

\* the history variables after a step that delivered the message msg
HistoryVars(msg) ==
    /\ CfgHistNext /\ OfflineNext /\ BeatNext /\ LwtHistNext /\ inbound' = msg
    /\ UNCHANGED writer

\* the same after an operation that ran from its call to its return with
\* the delivery thread where it was (status publishes are followed only
\* where a specification says so)
HistoryOf(msg) == HistoryVars(msg) /\ UNCHANGED <<delivering, last_status_ms>>

\* the history variables after a step (deliveries are followed only where a
\* specification says so)
History == HistoryOf(NoMsg)

(* ---------------- specification of the sync engine ---------------- *)

Roles == {"OWNER", "DEVICE"}

\* the table type the application of this specification uses
SyncTable == 1

\* an owner registered through sds_register_table_ex that also publishes state
AllFuncs == [OwnerFuncs EXCEPT !.serialize_state = TRUE]

\* the section sizes of table type k as sds_register_table_ex receives them
SizesOf(k) == [config |-> Registry(k).config_size, state |-> Registry(k).state_size,
               status |-> 0]

\* sds_register_table_ex called by the application
call_register_table_ex(table, table_type, role, options, sz, fn) ==
    LET r == sds_register_table_ex(table, table_type, role, options, sz, fn) IN
    /\ ret' = r.ret
    /\ tables' = r.tables
    /\ table_count' = r.table_count
    /\ sent' = r.sent
    /\ sub_calls' = r.sub_calls
    /\ subs' = mqtt_subscriptions(subs, r.sub_calls, mqtt_connected)
    /\ err_calls' = <<>>
    /\ cb_calls' = <<>>
    /\ UNCHANGED <<initialized, node_id, stats, reconnect_backoff_ms,
                   last_reconnect_attempt_ms, app_vars, mqtt_connected,
                   connect_ok, publish_ok, now, mem, ticks>>

\* the node is started
Start == sds_init(NodeOwn) /\ History

\* the application registers its one table, from the registry
Register ==
    /\ table_count = 0
    /\ \E role \in Roles :
          sds_register_table(SyncTable, TableName(SyncTable), role, NoOptions)
    /\ History

\* the application registers its one table with its own codec functions
RegisterEx ==
    /\ table_count = 0
    /\ call_register_table_ex(SyncTable, TableName(SyncTable), "OWNER", NoOptions,
                              SizesOf(SyncTable), AllFuncs)
    /\ History

Loop == sds_loop /\ History

\* the application sets up the config of its table struct before it
\* registers, and then writes the sections its registration publishes
Writable(k, sec) ==
    \/ table_count = 0 /\ sec = "config"
    \/ \E i \in TableSlots :
          tables[i].active /\ tables[i].table = k /\ Publishes(tables[i], sec)

\* the application writes an ordinary value to a section
Write ==
    /\ \E sec \in Sections, v \in 0..MaxVal :
          Writable(SyncTable, sec) /\ AppWrite(SyncTable, sec, v)
    /\ History

\* a config or state message arrives for a table
InboundSync ==
    /\ \E sec \in {"config", "state"}, b \in {NoBody, MaxVal} :
          on_mqtt_message([table_type |-> TableName(SyncTable), section |-> sec,
                           dev |-> <<>>],
                          [node |-> Dev1, online |-> "none", sv |-> <<>>, body |-> b])
    /\ History

Tick == AdvanceTime(SDS_DEFAULT_SYNC_INTERVAL_MS) /\ History

PublishToggle == (\E b \in BOOLEAN : SetPublishOk(b)) /\ History

Next ==
    \/ Start
    \/ Register
    \/ RegisterEx
    \/ Loop
    \/ Write
    \/ InboundSync
    \/ Tick
    \/ PublishToggle

Spec == Init /\ [][Next]_vars

(* ---------------- properties of the sync engine ---------------- *)

\* the sync interval of the registration has elapsed
SyncElapsed(ctx) == U32Geq(U32Sub(now, ctx.last_sync_ms), ctx.sync_interval_ms)

\* the section bytes of a registration's table struct
SectionOf(ctx, sec) == mem[ctx.table][sec]

\* the registration's section differs from its shadow
Changed(ctx, sec) ==
    /\ Publishes(ctx, sec)
    /\ SectionOf(ctx, sec) # Shadow(ctx, sec)

\* a publish call of this step for the section reported failure
FailedCall(ctx, sec) ==
    \E n \in CallsFor(sent', ctx.table_type, sec) : ~sent'[n].ok

\* C1: when the publish call for a changed section fails during a sync tick,
\* the shadow copy of the section is not updated, so that the section still
\* differs from its shadow on the next tick.
C1_FailedPublishKeepsShadow ==
    [][\A i \in TableSlots, sec \in Sections :
          (tables[i].active /\ Changed(tables[i], sec) /\ FailedCall(tables[i], sec))
          => /\ Shadow(tables'[i], sec) = Shadow(tables[i], sec)
             /\ mem'[tables[i].table][sec] # Shadow(tables'[i], sec)]_vars

\* C2: after every successful outbound publish and after every inbound
\* message that was deserialized into a section, the shadow copy of the
\* section holds exactly the bytes of the section.
C2_ShadowEqualsSection ==
    /\ \A n \in 1..Len(sent), i \in TableSlots :
          (sent[n].ok /\ tables[i].active /\ tables[i].table_type = sent[n].table_type)
          => Shadow(tables[i], sent[n].section) = SectionOf(tables[i], sent[n].section)
    /\ \A n \in 1..Len(cb_calls), i \in TableSlots :
          (/\ cb_calls[n].cb \in {"config", "state"}
           /\ tables[i].active /\ tables[i].table_type = cb_calls[n].table_type)
          => Shadow(tables[i], cb_calls[n].cb) = SectionOf(tables[i], cb_calls[n].cb)

\* a sync tick has just published a changed state section successfully
C2_Witness ==
    \E n \in 1..Len(sent), i \in TableSlots :
        /\ sent[n].ok /\ sent[n].section = "state"
        /\ tables[i].active /\ tables[i].table_type = sent[n].table_type
        /\ Carries(sent[n].payload, MaxVal)
        /\ SectionOf(tables[i], "state") = MaxVal

\* no section of any registration differs from its shadow and no heartbeat is due
Quiet ==
    \A i \in TableSlots :
        tables[i].active =>
            /\ \A sec \in Sections : ~Changed(tables[i], sec)
            /\ ~HeartbeatDue(tables[i])

\* C3: a sync tick in which no section differs from its shadow and no
\* heartbeat is due publishes no message.
C3_QuietTickPublishesNothing ==
    [][(Quiet /\ Loop) => sent' = <<>>]_vars

\* a registration was synced at the current time, after the clock advanced,
\* without any publish call
C3_Witness ==
    \E i \in TableSlots :
        /\ tables[i].active /\ ticks > 0
        /\ tables[i].last_sync_ms = now
        /\ tables[i].last_publish_ms # now
        /\ sent = <<>>

\* C5: registering a table as owner publishes its config exactly once,
\* retained, on sds/<table>/config; while the config bytes stay unchanged no
\* further config publish call is made for the registration.
C5_ConfigPublishedOnce ==
    /\ \A i \in TableSlots :
          (tables[i].active /\ Publishes(tables[i], "config") /\ ~cfg_hist[i].touched)
          => cfg_hist[i].count = 1
    /\ \A n \in 1..Len(sent) :
          sent[n].section = "config" => sent[n].retained /\ sent[n].node = <<>>

\* an owner registered with a nonzero config has been synced after the clock
\* advanced, its config bytes unchanged since it registered
C5_Witness ==
    \E i \in TableSlots :
        /\ tables[i].active /\ Publishes(tables[i], "config")
        /\ ~cfg_hist[i].touched /\ cfg_hist[i].count = 1
        /\ SectionOf(tables[i], "config") = MaxVal
        /\ ticks > 0 /\ tables[i].last_sync_ms = now /\ sent = <<>>

\* the JSON text has the member key with the number n (a bool is 1 or 0)
HasMember(payload, key, n) ==
    \E h \in 1..Len(payload) : payload[h].k = key /\ payload[h].n = n

\* the JSON text has the string member key
HasString(payload, key, str) ==
    \E h \in 1..Len(payload) : payload[h].k = key /\ payload[h].s = str

\* C6: a device registration with liveness_interval_ms > 0 whose status bytes
\* do not change publishes exactly one status message, with online:true and
\* sv, on a sync tick at which now - last_publish_ms >= liveness_interval_ms.
C6_HeartbeatWhenDue ==
    [][(Loop /\ initialized /\ mqtt_connected) =>
        \A i \in TableSlots :
          (/\ tables[i].role = "DEVICE" /\ tables[i].liveness_interval_ms > 0
           /\ HeartbeatDue(tables[i])
           /\ SyncElapsed(tables[i]))
          => LET calls == CallsFor(sent', tables[i].table_type, "status") IN
             /\ Cardinality(calls) = 1
             /\ \A n \in calls :
                   /\ HasMember(sent'[n].payload, "online", 1)
                   /\ HasString(sent'[n].payload, "sv", SchemaVersion)
                   /\ sent'[n].node = node_id
             /\ tables'[i].last_publish_ms = now]_vars

\* the last operation sent a heartbeat
C6_Witness ==
    /\ beat
    /\ \E n \in 1..Len(sent) : sent[n].section = "status" /\ sent[n].ok

\* position of a section in the order of sync_table
Rank(sec) == CASE sec = "config" -> 1 [] sec = "state" -> 2 [] sec = "status" -> 3

\* C7: the publish calls one operation makes for a table are at most one
\* config, one state and one status message, in that order.
C7_OneOfEachInOrder ==
    \A p, q \in 1..Len(sent) :
        (p < q /\ sent[p].table_type = sent[q].table_type)
        => Rank(sent[p].section) < Rank(sent[q].section)

\* a sync tick published the state and then the status of a table
C7_Witness ==
    /\ Len(sent) = 2
    /\ sent[1].table_type = sent[2].table_type
    /\ sent[1].section = "state" /\ sent[2].section = "status"

(* ---------------- specification of serialization overflow ---------------- *)

\* the application writes a section; BigVal does not fit the message buffer
WriteOverflow ==
    /\ \E sec \in Sections, v \in {0, BigVal} :
          Writable(SyncTable, sec) /\ AppWrite(SyncTable, sec, v)
    /\ History

\* the application registers or clears its error callback
ErrorCallback == (\E b \in BOOLEAN : error_callback # b /\ sds_on_error(b)) /\ History

LoopOverflow == Loop /\ stats'.errors <= MaxErrors

NextOverflow ==
    \/ Start
    \/ Register
    \/ RegisterEx
    \/ LoopOverflow
    \/ WriteOverflow
    \/ ErrorCallback
    \/ Tick

SpecOverflow == Init /\ [][NextOverflow]_vars

\* C8: a payload is handed to the transport, and the section copied to its
\* shadow, only when its serialization completed without writer overflow;
\* this includes the owner's initial config publish at registration.
C8_NoTruncatedPublish ==
    \A n \in 1..Len(sent) :
        /\ Complete(sent[n].payload)
        /\ \A i \in TableSlots :
              (tables[i].active /\ tables[i].table_type = sent[n].table_type)
              => Carries(sent[n].payload, Shadow(tables[i], sent[n].section))

\* the registration is due for a sync and a section it has to publish does
\* not fit the message buffer
Overflows(ctx) ==
    /\ ctx.active
    /\ SyncElapsed(ctx)
    /\ \E sec \in Sections :
          /\ SectionOf(ctx, sec) = BigVal
          /\ Changed(ctx, sec) \/ (sec = "status" /\ HeartbeatDue(ctx))

\* the errors passed to the error callback by the last operation
Reported == {err_calls[n] : n \in 1..Len(err_calls)}

\* C9: when serializing a section overflows the buffer during a sync tick,
\* the error callback (if registered) is invoked with BufferFull and
\* stats.errors is incremented; the registration stays active, its section
\* still differs from the shadow and it is synced again on later ticks.
C9_OverflowReported ==
    [][(Loop /\ initialized /\ mqtt_connected) =>
        \A i \in TableSlots :
          Overflows(tables[i])
          => /\ stats'.errors > stats.errors
             /\ error_callback => "BUFFER_FULL" \in {err_calls'[n] : n \in 1..Len(err_calls')}
             /\ tables'[i].active
             /\ tables'[i].last_sync_ms = now
             /\ \A sec \in Sections :
                   (SectionOf(tables[i], sec) = BigVal /\ Changed(tables[i], sec))
                   => /\ Shadow(tables'[i], sec) = Shadow(tables[i], sec)
                      /\ CallsFor(sent', tables[i].table_type, sec) = {}]_vars

\* an overflow has been reported on a second sync tick of the registration
C9_Witness ==
    /\ "BUFFER_FULL" \in Reported
    /\ stats.errors = 2 /\ ticks > 0
    /\ \E i \in TableSlots :
          /\ tables[i].active /\ tables[i].last_sync_ms = now
          /\ \E sec \in Sections : Changed(tables[i], sec) /\ SectionOf(tables[i], sec) = BigVal

(* ---------------- specification of the owner's status slots ---------------- *)

\* device ids that appear in status topics; the long ones have 32 characters
SlotDevices == {Dev1, LongDevA, LongDevB}

\* the application registers its one table as owner
RegisterOwner ==
    /\ table_count = 0
    /\ sds_register_table(SyncTable, TableName(SyncTable), "OWNER", NoOptions)
    /\ History

\* "2.0", a schema version other than the local one
OtherVersion == <<50, 46, 48>>

\* the transport delivers the status message on sds/<table>/status/<dev>
StatusDelivery(dev, online, sv, b) ==
    on_mqtt_message([table_type |-> TableName(SyncTable), section |-> "status",
                     dev |-> dev],
                    [node |-> <<>>, online |-> online, sv |-> sv, body |-> b])

StatusMsg(dev, online, sv, b) == StatusDelivery(dev, online, sv, b) /\ History

\* the step has invoked a callback for a message of the device
CallbackFor(dev) == cb_calls' # <<>> /\ cb_calls'[1].from_node = dev

InboundStatus ==
    \E dev \in SlotDevices, online \in {"none", "false"}, b \in {NoBody, MaxVal} :
        StatusMsg(dev, online, <<>>, b)

NextSlots ==
    \/ Start
    \/ RegisterOwner
    \/ InboundStatus
    \/ Tick

SpecSlots == Init /\ [][NextSlots]_vars

\* C10: at all times, after any sequence of inbound status messages, no two
\* valid slots of the same owner table hold the same node_id.
C10_SlotUniqueness ==
    \A k \in TableIds :
        \A j, h \in 1..MaxSlots :
            (/\ j # h
             /\ mem[k].status_slots[j].valid
             /\ mem[k].status_slots[h].valid)
            => mem[k].status_slots[j].node_id # mem[k].status_slots[h].node_id

\* the number of valid slots of a table struct
ValidSlots(m) == Cardinality({j \in 1..MaxSlots : m.status_slots[j].valid})

\* the device id as a slot stores it
StoredId(dev) == strncpy(dev, SDS_MAX_NODE_ID_LEN - 1)

\* device ids with distinct stored forms, one more than the table has slots
\* for; the long one has 32 characters
FullDevices == {Dev1, Dev2, LongDevA}

InboundFull ==
    \E dev \in FullDevices, online \in {"none", "false"}, b \in {NoBody, MaxVal} :
        StatusMsg(dev, online, <<>>, b)

NextFull ==
    \/ Start
    \/ RegisterOwner
    \/ InboundFull
    \/ Tick

SpecFull == Init /\ [][NextFull]_vars

\* C12: when every status slot of an owner table is valid, a status message
\* from a device without a slot is dropped (the table struct is unchanged),
\* and a status message from a device that has a slot still updates its slot.
C12_FullTableDropsNewDevice ==
    [][\A dev \in FullDevices, online \in {"none", "false"}, b \in {NoBody, MaxVal} :
          (/\ ValidSlots(mem[SyncTable]) = MaxSlots
           /\ CallbackFor(dev) /\ StatusDelivery(dev, online, <<>>, b))
          => IF SlotsOf(mem[SyncTable], StoredId(dev)) = {}
             THEN mem' = mem
             ELSE \E j \in SlotsOf(mem[SyncTable], StoredId(dev)) :
                     /\ mem'[SyncTable].status_slots[j].last_seen_ms = now
                     /\ mem'[SyncTable].status_slots[j].online = (online # "false")]_vars

\* C11: at all times the status_count of an owner table equals the number of
\* its slots with valid = true.
C11_StatusCountConsistent ==
    \A k \in TableIds : mem[k].status_count = ValidSlots(mem[k])

\* every slot of the owner table is in use
C11_Witness ==
    /\ mem[SyncTable].status_count = MaxSlots
    /\ ValidSlots(mem[SyncTable]) = MaxSlots

(* ---------------- specification of status messages and schema versions ---------------- *)

\* device ids that appear in status topics
StatusDevices == {Dev1, LongDevA}

\* the online member of a status payload: absent, true or false
OnlineFields == {"none", "true", "false"}

\* the sv member of a status payload: absent, the local version, another one
VersionFields == {<<>>, SchemaVersion, OtherVersion}

InboundVersioned ==
    \E dev \in StatusDevices, online \in OnlineFields, sv \in VersionFields,
       b \in {NoBody, MaxVal} : StatusMsg(dev, online, sv, b)

\* the application registers, replaces or clears its version-mismatch callback
VersionCallback ==
    /\ \E c \in {"NULL", "accept", "reject"} :
          version_mismatch_callback # c /\ sds_on_version_mismatch(c)
    /\ History

\* the clock advances once, so that slots are seen at two different times
TickOnce == ticks = 0 /\ Tick

NextStatus ==
    \/ Start
    \/ RegisterOwner
    \/ InboundVersioned
    \/ VersionCallback
    \/ TickOnce

SpecStatus == Init /\ [][NextStatus]_vars

\* the table is registered as owner and receives status messages
OwnerReady ==
    \E i \in TableSlots :
        /\ tables[i].active /\ tables[i].table_type = TableName(SyncTable)
        /\ tables[i].role = "OWNER" /\ tables[i].deserialize_status

\* the message is not turned away by the schema version check
VersionPasses(sv) ==
    sv \in {<<>>, SchemaVersion} \/ version_mismatch_callback # "reject"

\* the device has a slot in the table, or a slot is free for it
SlotAvailable(dev) ==
    \/ SlotsOf(mem[SyncTable], dev) # {}
    \/ ValidSlots(mem[SyncTable]) < MaxSlots

\* C13: when an owner accepts a status message for device d, a slot of d is
\* valid, its online flag equals the online member of the payload (true when
\* the member is absent), its last_seen_ms is the current time, and the
\* payload is deserialized into the slot only when online is true.
C13_AcceptedStatusUpdatesSlot ==
    [][\A dev \in StatusDevices, online \in OnlineFields, sv \in VersionFields,
          b \in {NoBody, MaxVal} :
          (/\ OwnerReady /\ VersionPasses(sv) /\ SlotAvailable(dev)
           /\ CallbackFor(dev) /\ StatusDelivery(dev, online, sv, b))
          => \E j \in 1..MaxSlots :
                LET old == mem[SyncTable].status_slots[j]
                    new == mem'[SyncTable].status_slots[j]
                IN  /\ new.valid /\ new.node_id = StoredId(dev)
                    /\ new.online = (online # "false")
                    /\ new.last_seen_ms = now
                    /\ new.status = IF online = "false" THEN old.status
                                    ELSE IF b = NoBody THEN old.status ELSE b]_vars

\* a device whose status was deserialized has later been reported offline
C13_Witness ==
    /\ ticks > 0
    /\ \E j \in 1..MaxSlots :
          LET slot == mem[SyncTable].status_slots[j] IN
          /\ slot.valid /\ slot.node_id = Dev1
          /\ ~slot.online /\ slot.last_seen_ms = now /\ slot.status = MaxVal
    /\ cb_calls = <<Callback("status", TableName(SyncTable), Dev1)>>

\* C16: a status message whose sv differs from the local schema version is
\* accepted exactly when no version-mismatch callback is registered or the
\* callback answers true; a rejected message changes no slot, no
\* status_count and fires no status callback.
C16_VersionGate ==
    [][\A dev \in StatusDevices, online \in OnlineFields, b \in {NoBody, MaxVal} :
          (OwnerReady /\ StatusDelivery(dev, online, OtherVersion, b))
          => LET status_cb == Callback("status", TableName(SyncTable), dev)
                 served == {j \in SlotsOf(mem'[SyncTable], StoredId(dev)) :
                              mem'[SyncTable].status_slots[j].last_seen_ms = now}
             IN  IF version_mismatch_callback = "reject"
                 THEN /\ mem' = mem
                      /\ \A n \in 1..Len(cb_calls') : cb_calls'[n] # status_cb
                 ELSE /\ \E n \in 1..Len(cb_calls') : cb_calls'[n] = status_cb
                      /\ SlotAvailable(dev) => served # {}]_vars

\* the version-mismatch callback has just turned a message away while the
\* table tracks a device
C16_Witness ==
    /\ version_mismatch_callback = "reject"
    /\ cb_calls = <<Callback("version_mismatch", TableName(SyncTable), Dev1)>>
    /\ mem[SyncTable].status_count > 0

(* ---------------- specification of the inbound dispatch ---------------- *)

\* a registration through sds_register_table_ex that hands over every
\* serialize and deserialize function
EveryFunc == [f \in DOMAIN NoFuncs |-> TRUE]

\* the section sizes of table type k, all three sections
AllSizes(k) == [config |-> Registry(k).config_size, state |-> Registry(k).state_size,
                status |-> Registry(k).status_size]

\* the application registers its one table, from the registry or with its own
\* functions, in either role
RegisterAny ==
    /\ table_count = 0
    /\ \E role \in Roles :
          \/ sds_register_table(SyncTable, TableName(SyncTable), role, NoOptions)
          \/ call_register_table_ex(SyncTable, TableName(SyncTable), role, NoOptions,
                                    AllSizes(SyncTable), EveryFunc)
    /\ History

\* a message of the table, as the transport delivers it
TableMsg(sec, node, b) ==
    [section |-> sec, node |-> node, online |-> "none", sv |-> <<>>, body |-> b]

\* a message arrives on a topic of the table: config, state (from this node
\* or from a device) or status/<node>
Deliver ==
    \E sec \in Sections, node \in {NodeOwn, Dev1}, b \in {NoBody, MaxVal} :
        /\ on_mqtt_message([table_type |-> TableName(SyncTable), section |-> sec,
                            dev |-> node], TableMsg(sec, node, b))
        /\ HistoryOf(TableMsg(sec, node, b))

NextInbound ==
    \/ Start
    \/ RegisterAny
    \/ Deliver
    \/ Write
    \/ TickOnce

SpecInbound == Init /\ [][NextInbound]_vars

\* the step changed no table struct and no registration and fired no callback
NothingApplied == mem' = mem /\ tables' = tables /\ cb_calls' = <<>>

\* C14: a state message whose node member equals the local node_id never
\* changes the state section or the state shadow and never fires the state
\* callback.
C14_OwnStateIgnored ==
    [][(inbound'.section = "state" /\ inbound'.node = node_id) => NothingApplied]_vars

\* an owner that has written its state has just been handed its own state
\* message with another value
C14_Witness ==
    /\ inbound.section = "state" /\ inbound.node = node_id /\ inbound.body = MaxVal
    /\ \E i \in TableSlots :
          /\ tables[i].active /\ tables[i].role = "OWNER" /\ tables[i].deserialize_state
          /\ mem[tables[i].table].state = 0
          /\ tables[i].shadow_state = 0

\* the role of the registration of the table, "none" when it has none
RoleOf(table_type) ==
    IF find_table(tables, table_type) = 0 THEN "none"
    ELSE tables[find_table(tables, table_type)].role

\* C15: an inbound config message is applied only to a device registration,
\* inbound state and status messages only to an owner registration; a
\* message for a section the role does not receive changes nothing.
C15_RoleGate ==
    [][/\ (inbound'.section = "config" /\ RoleOf(TableName(SyncTable)) # "DEVICE")
          => NothingApplied
       /\ (inbound'.section \in {"state", "status"}
           /\ RoleOf(TableName(SyncTable)) # "OWNER")
          => NothingApplied]_vars

\* a device that was handed every deserialize function has just received a
\* state message of another node
C15_Witness ==
    /\ inbound.section = "state" /\ inbound.node = Dev1 /\ inbound.body = MaxVal
    /\ \E i \in TableSlots :
          /\ tables[i].active /\ tables[i].role = "DEVICE" /\ tables[i].deserialize_state
          /\ mem[tables[i].table].state = 0

(* ---------------- last will and eviction (declared in sds.h) ---------------- *)

\* "lwt", the topic level of the last-will messages, sds/lwt/<device>
LwtName == <<108, 119, 116>>

\* SdsConfig.eviction_grace_ms as the application configures it
Graces == {0, 2000}

\* the application fills SdsConfig.eviction_grace_ms for sds_init
sds_config_eviction_grace(g) ==
    /\ ~initialized
    /\ eviction_grace_ms # g
    /\ eviction_grace_ms' = g
    /\ NoCalls
    /\ ret' = "none"
    /\ UNCHANGED <<core_vars, error_callback, version_mismatch_callback,
                   mqtt_connected, connect_ok, publish_ok, subs, now, mem, ticks>>

\* a <= b for two clock values
U32Le(a, b) == a.hi < b.hi \/ (a.hi = b.hi /\ a.lo <= b.lo)

\* the eviction timer of a slot whose device went offline
start_eviction(slot) ==
    IF eviction_grace_ms > 0
    THEN [slot EXCEPT !.eviction_pending = TRUE,
                      !.eviction_deadline = U32Add(now, eviction_grace_ms)]
    ELSE slot

\* a status arrival applied to the device's slot: the pending eviction is
\* cleared, and the timer is started when the status says offline
slot_status_arrival(slot, online, body) ==
    LET s == [slot_update(slot, online, body) EXCEPT !.eviction_pending = FALSE]
    IN  IF online THEN s ELSE start_eviction(s)

\* handle_status_message with the eviction timer
handle_status_message_timed(i, from_node, payload) ==
    LET ctx == tables[i]
        k == ctx.table
        fa == find_or_alloc_status_slot(ctx, mem[k], from_node)
        j == fa.slot
        online == payload.online # "false"
        remote_version == get_string_field(payload.sv, SDS_MAX_VERSION_LEN)
        vcalls == version_calls(remote_version, ctx.table_type, from_node)
    IN  /\ IF ctx.role # "OWNER" \/ ~ctx.deserialize_status
           THEN UNCHANGED mem /\ cb_calls' = <<>>
           ELSE IF version_rejected(remote_version)
           THEN UNCHANGED mem /\ cb_calls' = vcalls
           ELSE /\ IF j = 0 THEN mem' = [mem EXCEPT ![k] = fa.m]
                   ELSE mem' = [mem EXCEPT ![k] =
                      [fa.m EXCEPT !.status_slots[j] =
                          slot_status_arrival(@, online, payload.body)]]
                /\ cb_calls' = vcalls \o <<Callback("status", ctx.table_type, from_node)>>
        /\ UNCHANGED tables

\* mutant: the last will reaches only the first owner table that tracks the device
lwt_tables_first(dev) ==
    LET S == {i \in TableSlots : /\ tables[i].active /\ tables[i].role = "OWNER"
                                 /\ SlotsOf(mem[tables[i].table], dev) # {}}
    IN  {i \in S : \A h \in S : i <= h}

\* the owner tables that hold a valid slot of the device
lwt_tables(dev) ==
    {i \in TableSlots : /\ tables[i].active /\ tables[i].role = "OWNER"
                        /\ SlotsOf(mem[tables[i].table], dev) # {}}

\* the status callbacks of a last will, for the table slots from i on
RECURSIVE lwt_calls(_, _)
lwt_calls(i, dev) ==
    IF i > SDS_MAX_TABLES THEN <<>>
    ELSE (IF i \in lwt_tables(dev)
          THEN <<Callback("status", tables[i].table_type, dev)>>
          ELSE <<>>) \o lwt_calls(i + 1, dev)

\* a last will on sds/lwt/<dev>: the device is offline in every owner table
\* that tracks it; no slot is allocated
handle_lwt_message(dev, payload) ==
    /\ IF payload.online # "false"
       THEN UNCHANGED mem /\ cb_calls' = <<>>
       ELSE /\ mem' = [k \in TableIds |->
                  IF \E i \in lwt_tables(dev) : tables[i].table = k
                  THEN [mem[k] EXCEPT !.status_slots = [j \in 1..MaxSlots |->
                           IF j \in SlotsOf(mem[k], dev)
                           THEN start_eviction([mem[k].status_slots[j]
                                                   EXCEPT !.online = FALSE])
                           ELSE mem[k].status_slots[j]]]
                  ELSE mem[k]]
            /\ cb_calls' = lwt_calls(1, dev)
    /\ UNCHANGED tables

\* the message dispatch with the last-will topic and the eviction timer
on_mqtt_message_timed(topic, payload) ==
    LET i == find_table(tables, topic.table_type) IN
    /\ initialized /\ mqtt_connected
    /\ IF topic.table_type = LwtName
       THEN handle_lwt_message(topic.dev, payload)
       ELSE IF i # 0 /\ topic.section = "status"
       THEN handle_status_message_timed(i, topic.dev, payload)
       ELSE UNCHANGED <<tables, mem>> /\ cb_calls' = <<>>
    /\ sent' = <<>>
    /\ err_calls' = <<>>
    /\ sub_calls' = <<>>
    /\ ret' = "none"
    /\ UNCHANGED <<initialized, node_id, table_count, stats, reconnect_backoff_ms,
                   last_reconnect_attempt_ms, app_vars, mqtt_connected,
                   connect_ok, publish_ok, subs, now, ticks>>

\* mutant: the deadline itself is still too early
eviction_due_late(slot) ==
    /\ slot.valid /\ slot.eviction_pending
    /\ U32Le(slot.eviction_deadline, now) /\ slot.eviction_deadline # now

\* mutant: a pending eviction does not wait for its deadline
eviction_due_at_once(slot) == slot.valid /\ slot.eviction_pending

\* the scan's test of a slot: eviction_pending and now >= eviction_deadline
eviction_due(slot) ==
    slot.valid /\ slot.eviction_pending /\ U32Le(slot.eviction_deadline, now)

\* a table struct after the eviction scan
evict_slots(m) ==
    [m EXCEPT !.status_slots = [j \in 1..MaxSlots |->
                 IF eviction_due(m.status_slots[j])
                 THEN [m.status_slots[j] EXCEPT !.valid = FALSE,
                                                !.eviction_pending = FALSE]
                 ELSE m.status_slots[j]],
              !.status_count =
                 (@ + 256 - Cardinality({j \in 1..MaxSlots :
                                           eviction_due(m.status_slots[j])})) % 256]

\* the eviction callbacks for the slots of a table struct from slot j on
RECURSIVE evicted_in(_, _, _)
evicted_in(m, table_type, j) ==
    IF j > MaxSlots THEN <<>>
    ELSE (IF eviction_due(m.status_slots[j])
          THEN <<Callback("evicted", table_type, m.status_slots[j].node_id)>>
          ELSE <<>>) \o evicted_in(m, table_type, j + 1)

\* the eviction callbacks of the scan, for the table slots from i on
RECURSIVE evict_calls(_)
evict_calls(i) ==
    IF i > SDS_MAX_TABLES THEN <<>>
    ELSE (IF tables[i].active /\ tables[i].role = "OWNER"
          THEN evicted_in(mem[tables[i].table], tables[i].table_type, 1)
          ELSE <<>>) \o evict_calls(i + 1)

\* sds_loop with the eviction scan after the table loop
sds_loop_evicting ==
    IF initialized /\ mqtt_connected
    THEN /\ tables' = sync_tables(now, sds_platform_mqtt_publish)
         /\ sent' = sync_calls(1, "sent", now, sds_platform_mqtt_publish)
         /\ notify_errors(sync_calls(1, "errs", now, sds_platform_mqtt_publish))
         /\ mem' = [k \in TableIds |->
               IF \E i \in TableSlots : /\ tables[i].active /\ tables[i].table = k
                                        /\ tables[i].role = "OWNER"
               THEN evict_slots(mem[k]) ELSE mem[k]]
         /\ cb_calls' = evict_calls(1)
         /\ sub_calls' = <<>>
         /\ ret' = "none"
         /\ UNCHANGED <<initialized, node_id, table_count, reconnect_backoff_ms,
                        last_reconnect_attempt_ms, mqtt_connected, app_vars,
                        connect_ok, publish_ok, subs, now, ticks>>
    ELSE sds_loop

(* ---------------- specification of the eviction of offline devices ---------------- *)

\* the clock of this specification starts at 0
InitEvict == Init /\ now = U32Of(0)

ConfigureEviction == (\E g \in Graces : sds_config_eviction_grace(g)) /\ History

\* the node is started once
StartEvict == ~initialized /\ Start

\* the application registers the tables of the registry as owner, in the
\* order of the registry
RegisterOwners ==
    /\ initialized
    /\ \E k \in TableIds :
          /\ table_count = k - 1
          /\ sds_register_table(k, TableName(k), "OWNER", NoOptions)
    /\ History

\* the message that was delivered on the last-will topic of the device
LwtMsg(dev) == [section |-> "lwt", node |-> dev]

\* the transport delivers a status message of a device (d1 reports to both
\* tables, d2 reports to the first, before the clock moves, that it is online)
DeliverStatus ==
    /\ \E k \in TableIds, dev \in Devices, online \in {"none", "false"} :
          /\ dev = Dev1 \/ (k = 1 /\ online = "none" /\ ticks = 0)
          /\ on_mqtt_message_timed(
              [table_type |-> TableName(k), section |-> "status", dev |-> dev],
              [node |-> <<>>, online |-> online, sv |-> <<>>, body |-> NoBody])
    /\ History

\* the transport delivers the last will of a device
DeliverLwt ==
    \E dev \in Devices :
        /\ on_mqtt_message_timed(
              [table_type |-> LwtName, section |-> "node", dev |-> dev],
              [node |-> dev, online |-> "false", sv |-> <<>>, body |-> NoBody])
        /\ HistoryOf(LwtMsg(dev))

LoopEvict == sds_loop_evicting /\ History

\* the clock advances while the tables are being followed
TickEvict == ticks < MaxTicks - 1 /\ table_count > 0 /\ Tick

NextEvict ==
    \/ ConfigureEviction
    \/ StartEvict
    \/ RegisterOwners
    \/ DeliverStatus
    \/ DeliverLwt
    \/ LoopEvict
    \/ TickEvict

SpecEvict == InitEvict /\ [][NextEvict]_vars

\* table k is registered as owner
OwnerOf(k) ==
    \E i \in TableSlots :
        tables[i].active /\ tables[i].role = "OWNER" /\ tables[i].table = k

\* how often the callback invocation c is in the step's callback list
Invoked(c) == Cardinality({n \in 1..Len(cb_calls') : cb_calls'[n] = c})

GraceOver(k, d) ==
    /\ eviction_grace_ms > 0
    /\ lwt_hist[k][d].seen
    /\ U32Geq(U32Sub(now, lwt_hist[k][d].at), eviction_grace_ms)

MaxReconnects == 1

\* the application registers its one table with a sync interval of 0 ms, so
\* that every call of sds_loop syncs it
RegisterLive ==
    /\ table_count = 0
    /\ \E role \in Roles : sds_register_table(SyncTable, TableName(SyncTable), role, 0)
    /\ History

\* the transport loses its connection
Disconnect ==
    /\ stats.reconnect_count < MaxReconnects
    /\ ConnectionLost
    /\ History

NextLive ==
    \/ Start
    \/ RegisterLive
    \/ Loop
    \/ Write
    \/ Disconnect
    \/ PublishToggle

\* the application's main loop keeps calling sds_loop
SpecLive == Init /\ [][NextLive]_vars /\ WF_vars(Loop)

\* a change of the section made while disconnected has not been published
Pending(sec) == \E i \in TableSlots : offline_change[i][sec] # NoBody

\* C4: a section change the application makes while the transport is
\* disconnected is not lost: once the connection is re-established for good
\* and sds_loop keeps being called, a publish carrying the changed value
\* eventually succeeds (or the application overwrites the change).
C4_OfflineChangePublished ==
    (<>[](mqtt_connected /\ publish_ok))
    => \A sec \in Sections : (Pending(sec) ~> ~Pending(sec))

(* ---------------- specification of the reconnect backoff ---------------- *)

\* cap on the failed connect attempts explored
MaxAttempts == 9

\* the broker becomes reachable or unreachable
ConnectToggle == (\E b \in BOOLEAN : SetConnectOk(b)) /\ History

\* the application keeps calling sds_loop
LoopBackoff == stats.errors < MaxAttempts /\ Loop

\* time passes while the node waits for its next connect attempt: half of the
\* backoff, or all of it
Wait ==
    /\ initialized /\ ~mqtt_connected
    /\ reconnect_backoff_ms > 0
    /\ ~U32Geq(U32Sub(now, last_reconnect_attempt_ms), reconnect_backoff_ms)
    /\ \E d \in {reconnect_backoff_ms \div 2, reconnect_backoff_ms} :
          now' = U32Add(now, d)
    /\ NoCalls
    /\ ret' = "none"
    /\ UNCHANGED <<core_vars, app_vars, mqtt_connected, connect_ok, publish_ok,
                   subs, mem, ticks>>
    /\ History

NextBackoff ==
    \/ Start
    \/ LoopBackoff
    \/ Wait
    \/ Disconnect
    \/ ConnectToggle

SpecBackoff == Init /\ [][NextBackoff]_vars

\* the time since the last connect attempt is shorter than the backoff
Waiting ==
    /\ reconnect_backoff_ms > 0
    /\ ~U32Geq(U32Sub(now, last_reconnect_attempt_ms), reconnect_backoff_ms)

\* C20: while the node is disconnected the reconnect backoff is 1000 ms after
\* the first failed attempt and doubles with each further failed attempt,
\* never exceeding 60000 ms; a successful connect resets it to 0 (it is 0
\* whenever the transport is connected); and a call of sds_loop makes no
\* connect attempt while now - last_attempt < backoff, and makes one otherwise.
C20_ReconnectBackoff ==
    [][/\ reconnect_backoff_ms' <= 60000
       /\ mqtt_connected' => reconnect_backoff_ms' = 0
       /\ (sds_loop /\ initialized /\ ~mqtt_connected) =>
             IF Waiting
             THEN /\ UNCHANGED <<mqtt_connected, stats, reconnect_backoff_ms,
                                 last_reconnect_attempt_ms>>
                  /\ err_calls' = <<>>
             ELSE /\ last_reconnect_attempt_ms' = now
                  /\ IF connect_ok
                     THEN /\ mqtt_connected'
                          /\ stats'.reconnect_count = stats.reconnect_count + 1
                     ELSE /\ ~mqtt_connected'
                          /\ stats'.errors = stats.errors + 1
                          /\ reconnect_backoff_ms' =
                                IF reconnect_backoff_ms = 0 THEN 1000
                                ELSE IF 2 * reconnect_backoff_ms > 60000 THEN 60000
                                ELSE 2 * reconnect_backoff_ms]_vars

\* the eighth connect attempt has failed, the backoff stays at its cap and
\* half of it has passed
C20_Witness ==
    /\ initialized /\ ~mqtt_connected
    /\ stats.errors = 8
    /\ reconnect_backoff_ms = 60000
    /\ U32Sub(now, last_reconnect_attempt_ms) = U32Of(30000)

(* ---------------- specification of the reconnect ---------------- *)

\* the node is started before the clock has moved and a table was registered
StartFresh ==
    /\ now \in StartTimes
    /\ tables = [i \in TableSlots |-> ZeroCtx]
    /\ Start

\* the application registers a table of the registry in either role,
\* whether the transport is connected or not
RegisterTables ==
    /\ initialized
    /\ \E k \in TableIds, role \in Roles :
          /\ find_table(tables, TableName(k)) = 0
          /\ sds_register_table(k, TableName(k), role, NoOptions)
    /\ History

\* sds_loop, while the failed connect attempts are few
LoopReconnect == stats.errors < MaxErrors /\ Loop

Shutdown == initialized /\ sds_shutdown /\ History

NextReconnect ==
    \/ StartFresh
    \/ RegisterTables
    \/ LoopReconnect
    \/ Wait
    \/ Disconnect
    \/ ConnectToggle
    \/ ErrorCallback
    \/ Shutdown

SpecReconnect == Init /\ [][NextReconnect]_vars

\* the step is a successful reconnect of the initialized node
Reconnected == initialized /\ ~mqtt_connected /\ mqtt_connected'

\* the topics a registration of the role listens to
TopicsOfRole(role, table_type) ==
    IF role = "DEVICE" THEN {Topic(table_type, "config")}
    ELSE {Topic(table_type, "state"), Topic(table_type, "status/+")}

\* C21: after a successful reconnect the transport has received a subscribe
\* call for every topic of every registration active at that time
\* (sds/<T>/config for a device registration; sds/<T>/state and
\* sds/<T>/status/+ for an owner registration), registrations made while the
\* transport was disconnected included, and holds these subscriptions.
C21_ResubscribeOnReconnect ==
    [][Reconnected =>
        \A i \in TableSlots :
            tables'[i].active =>
                \A t \in TopicsOfRole(tables'[i].role, tables'[i].table_type) :
                    /\ \E n \in 1..Len(sub_calls') :
                          sub_calls'[n] = SubCall("subscribe", t)
                    /\ t \in subs']_vars

\* the reconnect has just subscribed again for a device table and for an
\* owner table
C21_Witness ==
    /\ mqtt_connected /\ stats.reconnect_count = 1
    /\ \E a, b \in TableIds :
          /\ a # b
          /\ sub_calls = <<SubCall("subscribe", Topic(TableName(a), "config")),
                           SubCall("subscribe", Topic(TableName(b), "state")),
                           SubCall("subscribe", Topic(TableName(b), "status/+"))>>
    /\ Cardinality(subs) = 3

C23_ReconnectFailureReported ==
    [][(sds_loop /\ initialized /\ ~mqtt_connected /\ ~Waiting) =>
          IF connect_ok
          THEN err_calls' = <<>> /\ stats'.errors = stats.errors
          ELSE /\ err_calls' = IF error_callback THEN <<"MQTT_DISCONNECTED">>
                               ELSE <<>>
               /\ stats'.errors = stats.errors + 1
               /\ initialized' /\ ~mqtt_connected'
               /\ tables' = tables /\ table_count' = table_count]_vars

\* the second connect attempt in a row has failed and was reported to the
\* registered callback, with a table registered
C23_Witness ==
    /\ initialized /\ ~mqtt_connected /\ error_callback
    /\ err_calls = <<"MQTT_DISCONNECTED">>
    /\ stats.errors = 2
    /\ table_count > 0

(* ---------------- specification of the table registry ---------------- *)

\* the application knows MaxNames table types of two characters
MaxNames == 9

\* the unusual registrations (the long name, a section over the limit) are
\* tried while fewer than MaxEdge tables are registered and with the registry
\* full
MaxEdge == 2
Edge(n) == n < MaxEdge \/ n >= SDS_MAX_TABLES

\* a table type name of 32 characters, the shortest one over the limit
LongTable == Str(84, SDS_MAX_TABLE_TYPE_LEN)

\* the table type names the application passes while n tables are
\* registered: the next one, the one stored by its latest registration, and
\* the long one
UnregisterNames(n) ==
    {TableName(Min(n + 1, MaxNames)), LongTable}
        \union (IF n > 0 THEN {tables[n].table_type} ELSE {})
RegistryNames(n) ==
    {table_type \in UnregisterNames(n) : table_type = LongTable => Edge(n)}

\* the node owns the first table type and is a device of the others
RegistryRole(table_type) ==
    IF table_type = TableName(1) THEN "OWNER" ELSE "DEVICE"

\* section sizes the shadow buffers hold, section sizes with one section
\* (sec) over SDS_SHADOW_SIZE, and the sizes passed with n tables registered
FitSizes == [config |-> 4, state |-> 4, status |-> 4]
OverSizes(sec) == [FitSizes EXCEPT ![sec] = SDS_SHADOW_SIZE + 1]
RegistrySizes(n) ==
    {FitSizes} \union (IF Edge(n) THEN {OverSizes(sec) : sec \in Sections} ELSE {})

\* sds_register_table_ex called for struct 1 with the functions of the role
RegisterCall(table_type, role, sz) ==
    call_register_table_ex(1, table_type, role, NoOptions, sz,
                           IF role = "DEVICE" THEN DeviceFuncs ELSE OwnerFuncs)

\* sds_register_table_ex, at any time
RegisterName ==
    /\ \E table_type \in RegistryNames(table_count) :
       \E sz \in RegistrySizes(table_count) :
          RegisterCall(table_type, RegistryRole(table_type), sz)
    /\ History

\* sds_unregister_table, at any time
UnregisterName ==
    /\ \E table_type \in UnregisterNames(table_count) :
          sds_unregister_table(table_type)
    /\ History

\* the node is started once
StartOnce == ~initialized /\ Start

\* a lost connection comes back with the next sds_loop
NextRegistry ==
    \/ StartOnce
    \/ RegisterName
    \/ UnregisterName
    \/ LoopReconnect
    \/ Disconnect

\* the node is started at time 0
InitRegistry == Init /\ now = U32Of(0)

SpecRegistry == InitRegistry /\ [][NextRegistry]_vars

\* the slots that hold an active registration
ActiveSlots(tbls) == {i \in TableSlots : tbls[i].active}

\* an active registration is stored under this name
Stored(table_type) ==
    \E i \in TableSlots : tables[i].active /\ tables[i].table_type = table_type

\* C24: no two active registrations share their table name, and registering
\* a name under which a registration is active returns
\* SDS_ERR_TABLE_ALREADY_REGISTERED and changes no registration
C24_OneRegistrationPerName ==
    [][/\ \A i, j \in ActiveSlots(tables') :
             tables'[i].table_type = tables'[j].table_type => i = j
       /\ \A table_type \in RegistryNames(table_count), sz \in RegistrySizes(table_count) :
             (Stored(table_type) /\ RegisterCall(table_type, RegistryRole(table_type), sz))
                 => /\ ret' = "ERR_TABLE_ALREADY_REGISTERED"
                    /\ tables' = tables
                    /\ table_count' = table_count]_vars

\* C25: registering a table type name of more than 31 characters returns an
\* error and creates no registration
C25_LongNameRefused ==
    [][\A sz \in RegistrySizes(table_count) :
          (initialized /\ RegisterCall(LongTable, RegistryRole(LongTable), sz))
              => /\ ret' # "OK"
                 /\ ActiveSlots(tables') = ActiveSlots(tables)
                 /\ table_count' = table_count]_vars

\* C26: the registration count is the number of active registrations and
\* never exceeds SDS_MAX_TABLES; a registration attempted while
\* SDS_MAX_TABLES registrations are active returns
\* SDS_ERR_MAX_TABLES_REACHED (SDS_ERR_TABLE_ALREADY_REGISTERED for a name
\* that is registered) and changes no registration
C26_MaxTables ==
    [][/\ table_count' <= SDS_MAX_TABLES
       /\ table_count' = Cardinality(ActiveSlots(tables'))
       /\ \A table_type \in RegistryNames(table_count), sz \in RegistrySizes(table_count) :
             (/\ Cardinality(ActiveSlots(tables)) = SDS_MAX_TABLES
              /\ RegisterCall(table_type, RegistryRole(table_type), sz))
                 => /\ ret' = IF Stored(table_type)
                              THEN "ERR_TABLE_ALREADY_REGISTERED"
                              ELSE "ERR_MAX_TABLES_REACHED"
                    /\ tables' = tables
                    /\ table_count' = table_count]_vars

\* the registry is full and one more table type has just been refused
C26_Witness ==
    /\ ret = "ERR_MAX_TABLES_REACHED"
    /\ table_count = SDS_MAX_TABLES
    /\ ActiveSlots(tables) = TableSlots
    /\ ~Stored(TableName(MaxNames))

\* C27: a registration with a section size over SDS_SHADOW_SIZE fails, with
\* SDS_ERR_SECTION_TOO_LARGE when no earlier test of sds_register_table_ex
\* refuses it, and leaves the active registrations, the registration count
\* and the subscriptions as they were
C27_SectionTooLarge ==
    [][\A table_type \in RegistryNames(table_count), sec \in Sections :
          RegisterCall(table_type, RegistryRole(table_type), OverSizes(sec))
              => /\ ret' = IF ~initialized THEN "ERR_NOT_INITIALIZED"
                           ELSE IF Stored(table_type)
                           THEN "ERR_TABLE_ALREADY_REGISTERED"
                           ELSE IF Cardinality(ActiveSlots(tables)) = SDS_MAX_TABLES
                           THEN "ERR_MAX_TABLES_REACHED"
                           ELSE "ERR_SECTION_TOO_LARGE"
                 /\ ActiveSlots(tables') = ActiveSlots(tables)
                 /\ \A i \in ActiveSlots(tables) : tables'[i] = tables[i]
                 /\ table_count' = table_count
                 /\ subs' = subs
                 /\ sub_calls' = <<>>
                 /\ sent' = <<>>]_vars

\* a registration has just been refused for its section sizes while the
\* node was connected and had a table registered and subscribed
C27_Witness ==
    /\ ret = "ERR_SECTION_TOO_LARGE"
    /\ mqtt_connected
    /\ table_count = 1
    /\ tables[1].active /\ ~tables[2].active /\ tables[2].table_type # <<>>
    /\ subs # {}

\* C28: unregistering a registered table takes the registration count back
\* by one and leaves none of the topics of the registration subscribed
C28_UnregisterUndoesRegister ==
    [][\A i \in ActiveSlots(tables) :
          sds_unregister_table(tables[i].table_type)
              => /\ ret' = "OK"
                 /\ table_count' = table_count - 1
                 /\ \A t \in TopicsOfRole(tables[i].role, tables[i].table_type) :
                       t \notin subs']_vars

(* ---------------- specification of the lifecycle ---------------- *)

\* sds_init, at any time
StartAny == (\E id \in {NodeOwn, Dev1} : sds_init(id)) /\ History

\* sds_unregister_table for the application's one table, at any time
Unregister == sds_unregister_table(TableName(SyncTable)) /\ History

\* sds_shutdown, at any time
ShutdownAny == sds_shutdown /\ History

\* sds_register_table (Register) and sds_loop (LoopReconnect) at any time too
NextLifecycle ==
    \/ StartAny
    \/ Register
    \/ Unregister
    \/ LoopReconnect
    \/ ShutdownAny
    \/ Disconnect
    \/ ConnectToggle

SpecLifecycle == Init /\ [][NextLifecycle]_vars

\* C31: sds_shutdown on an initialized, connected node first publishes the
\* retained message {"online":false,"node":<node_id>,...} on sds/lwt/<node_id>,
\* then unsubscribes every topic of every active registration, and leaves no
\* registration active, a registration count of 0 and the node uninitialized
C31_ShutdownOrder ==
    [][(initialized /\ mqtt_connected /\ sds_shutdown)
          => /\ shutdown_calls # <<>>
             /\ IsPublish(shutdown_calls[1])
             /\ sent' = <<shutdown_calls[1]>>
             /\ sent'[1].section = "lwt" /\ sent'[1].node = node_id
             /\ sent'[1].retained
             /\ \E n \in 1..Len(sent'[1].payload) :
                   sent'[1].payload[n] = Tok("online", 0, <<>>)
             /\ sub_calls' = Tail(shutdown_calls)
             /\ \A n \in 1..Len(sub_calls') : sub_calls'[n].op = "unsubscribe"
             /\ \A i \in TableSlots :
                   tables[i].active =>
                      \A t \in TopicsOfRole(tables[i].role, tables[i].table_type) :
                         /\ \E n \in 1..Len(sub_calls') : sub_calls'[n].topic = t
                         /\ t \notin subs'
             /\ \A i \in TableSlots : ~tables'[i].active
             /\ table_count' = 0
             /\ ~initialized']_vars

\* sds_shutdown has just taken down a connected node that had a device table
\* and an owner table registered
C31_Witness ==
    /\ ~initialized
    /\ Len(sent) = 1 /\ sent[1].section = "lwt"
    /\ Len(sub_calls) = 3
    /\ table_count = 0
    /\ subs = {}

\* the node state that sds_init, the registry calls, sds_loop and
\* sds_shutdown work on, and the transport's
node_state == <<initialized, node_id, tables, table_count, stats,
                reconnect_backoff_ms, last_reconnect_attempt_ms,
                mqtt_connected, subs>>

\* no call has reached the transport or a callback
Untouched ==
    sent' = <<>> /\ sub_calls' = <<>> /\ err_calls' = <<>> /\ cb_calls' = <<>>

\* C29: sds_init on an initialized node, connected or not, returns
\* SDS_ERR_ALREADY_INITIALIZED and changes neither the node id, the
\* registrations, the statistics nor the connection
C29_InitRefused ==
    [][\A id \in {NodeOwn, Dev1} :
          (initialized /\ sds_init(id))
              => /\ ret' = "ERR_ALREADY_INITIALIZED"
                 /\ UNCHANGED node_state
                 /\ Untouched]_vars

\* sds_init has just been refused on a node that waits for its reconnect
\* with a table registered
C29_Witness ==
    /\ ret = "ERR_ALREADY_INITIALIZED"
    /\ initialized /\ ~mqtt_connected
    /\ table_count = 1
    /\ stats.errors > 0

\* C30: on a node that is not initialized (before sds_init, after
\* sds_shutdown) sds_register_table and sds_unregister_table return
\* SDS_ERR_NOT_INITIALIZED, sds_loop and sds_shutdown return at once, and
\* none of them changes the node state or calls the transport
C30_NotInitialized ==
    [][~initialized =>
          /\ \A role \in Roles :
                sds_register_table(SyncTable, TableName(SyncTable), role, NoOptions)
                    => /\ ret' = "ERR_NOT_INITIALIZED"
                       /\ UNCHANGED node_state
                       /\ Untouched
          /\ sds_unregister_table(TableName(SyncTable))
                => /\ ret' = "ERR_NOT_INITIALIZED"
                   /\ UNCHANGED node_state
                   /\ Untouched
          /\ (sds_loop \/ sds_shutdown)
                => /\ UNCHANGED node_state
                   /\ Untouched]_vars

\* a registry call has just been refused after sds_shutdown took down a node
\* that had a table registered
C30_Witness ==
    /\ ret = "ERR_NOT_INITIALIZED"
    /\ ~initialized
    /\ node_id = NodeOwn
    /\ table_count = 0
    /\ tables[1].table_type = TableName(SyncTable) /\ ~tables[1].active

(* ---------------- specification of malformed payloads ---------------- *)

\* a message arrives on a topic of the table with a payload that is empty,
\* not closed, or well formed
DeliverPayload ==
    \E sec \in Sections, node \in {NodeOwn, Dev1},
       b \in {NoBody, Unclosed(MaxVal), MaxVal} :
        /\ on_mqtt_message([table_type |-> TableName(SyncTable), section |-> sec,
                            dev |-> node], TableMsg(sec, node, b))
        /\ HistoryOf(TableMsg(sec, node, b))

NextPayload ==
    \/ Start
    \/ RegisterAny
    \/ DeliverPayload
    \/ Write

SpecPayload == Init /\ [][NextPayload]_vars

\* C32: a message with an empty or malformed payload changes no field of the
\* config section, of the state section or of the status data of a slot
C32_MalformedKeepsValues ==
    [][(inbound'.section # "none" /\ Malformed(inbound'.body))
          => \A k \in TableIds :
                /\ mem'[k].config = mem[k].config
                /\ mem'[k].state = mem[k].state
                /\ \A j \in 1..MaxSlots :
                      mem'[k].status_slots[j].status = mem[k].status_slots[j].status]_vars

(* ---------------- specification of the topic parser ---------------- *)

\* the topics messages arrive on: with and without the prefix of the
\* library, for the registered table type, for another one, with an empty
\* table type and with one of 32 characters
TopicPrefixes == {"sds/", "wrong/"}
TopicTables == {TableName(SyncTable), TableName(SyncTable + 1), <<>>, LongTable}

\* a message arrives on one of these topics
DeliverTopic ==
    \E prefix \in TopicPrefixes, table_type \in TopicTables, sec \in Sections :
        LET msg == TableMsg(sec, Dev1, MaxVal) IN
        /\ on_mqtt_message_topic([prefix |-> prefix, table_type |-> table_type,
                                  section |-> sec, dev |-> Dev1], msg)
        /\ HistoryOf([prefix |-> prefix, table_type |-> table_type,
                      section |-> sec, node |-> Dev1, online |-> msg.online,
                      sv |-> msg.sv, body |-> msg.body])

NextTopics ==
    \/ Start
    \/ RegisterAny
    \/ Unregister
    \/ DeliverTopic
    \/ Write

SpecTopics == Init /\ [][NextTopics]_vars

\* the topic of the message that has just arrived is not one of the library,
\* or its table type is empty, too long or not that of an active registration
Foreign(msg) ==
    \/ msg.prefix # "sds/"
    \/ Len(msg.table_type) = 0
    \/ Len(msg.table_type) > SDS_MAX_TABLE_TYPE_LEN - 1
    \/ ~Stored(msg.table_type)

\* C33: a message whose topic does not start with sds/, or has an empty or
\* over-long table type, or a table type without an active registration,
\* changes no table struct (sections, status slots) and no shadow and
\* invokes no callback
C33_ForeignTopicIgnored ==
    [][(inbound'.section # "none" /\ Foreign(inbound')) => NothingApplied]_vars

\* a config message for the table type of an active device registration has
\* just arrived on a topic that does not start with sds/, and the config
\* does not hold its value
C33_Witness ==
    /\ inbound.section = "config"
    /\ inbound.prefix = "wrong/"
    /\ inbound.table_type = TableName(SyncTable)
    /\ \E i \in TableSlots :
          /\ tables[i].active /\ tables[i].table_type = inbound.table_type
          /\ tables[i].role = "DEVICE"
    /\ mem[SyncTable].config # inbound.body

(* ---------------- specification of the sync intervals ---------------- *)

\* the sync interval the application passes in its table options
OptInterval == 500

\* the application registers the first table type with table options and
\* the other one without
IntervalOptions(k) == IF k = SyncTable THEN OptInterval ELSE NoOptions

RegisterInterval ==
    /\ \E k \in TableIds, role \in Roles :
          sds_register_table(k, TableName(k), role, IntervalOptions(k))
    /\ History

\* the clock advances by the interval of the table options
TickInterval == AdvanceTime(OptInterval) /\ History

NextInterval ==
    \/ Start
    \/ RegisterInterval
    \/ TickInterval
    \/ Loop

SpecInterval == Init /\ [][NextInterval]_vars

\* the interval a registration is to be synced at: that of its options, or
\* that of the metadata of its table type
IntervalOf(ctx) ==
    IF IntervalOptions(ctx.table) # NoOptions THEN IntervalOptions(ctx.table)
    ELSE Registry(ctx.table).sync_interval_ms

\* C34: sds_loop on a connected node syncs a registration made with table
\* options exactly when options.sync_interval_ms has elapsed since its last
\* sync, and a registration made without options exactly when the
\* sync_interval_ms of its table metadata has elapsed
C34_SyncInterval ==
    [][(initialized /\ mqtt_connected /\ sds_loop)
          => \A i \in TableSlots :
                tables[i].active
                    => ((tables'[i].last_sync_ms # tables[i].last_sync_ms)
                          <=> U32Geq(U32Sub(now, tables[i].last_sync_ms),
                                     IntervalOf(tables[i])))]_vars

(* ---------------- specification of the delivery thread ---------------- *)

\* the transport's thread enters on_mqtt_message with a message of the table
DeliverEnter ==
    /\ \E sec \in Sections :
          on_mqtt_message_enter([table_type |-> TableName(SyncTable),
                                 section |-> sec, dev |-> Dev1],
                                TableMsg(sec, Dev1, MaxVal))
    /\ HistoryVars(NoMsg)
    /\ UNCHANGED last_status_ms

\* and leaves it
DeliverReturn ==
    on_mqtt_message_return /\ HistoryVars(NoMsg) /\ UNCHANGED last_status_ms

\* the application registers its table once
RegisterFirst == tables[1].table = 0 /\ RegisterAny

\* the application's thread starts the node, registers and unregisters its
\* table and calls sds_loop while the clock advances
NextThreads ==
    \/ Start
    \/ RegisterFirst
    \/ Unregister
    \/ TickOnce
    \/ Loop
    \/ DeliverEnter
    \/ DeliverReturn

\* the node is started when the clock reads 0
InitThreads == Init /\ now = U32Of(0)

SpecThreads == InitThreads /\ [][NextThreads]_vars

\* an operation of the application's thread that works on the registrations
\* and shadows: sds_loop, a registration or an unregistration
RegistryOperation ==
    /\ UNCHANGED delivering
    /\ \/ sds_loop
       \/ sds_unregister_table(TableName(SyncTable))
       \/ \E role \in Roles :
             \/ sds_register_table(SyncTable, TableName(SyncTable), role, NoOptions)
             \/ call_register_table_ex(SyncTable, TableName(SyncTable), role,
                                       NoOptions, AllSizes(SyncTable), EveryFunc)

\* C35: the dispatch of an inbound message on the transport's thread excludes
\* sds_loop, registration and unregistration: none of them runs while the
\* delivery thread is between the call and the return of on_mqtt_message
\* (between the update of a section and that of its shadow and the callback)
C35_MutualExclusion ==
    [][RegistryOperation => delivering = NoDelivery]_vars

(* ---------------- specification of the heartbeat ---------------- *)

\* the application registers its table as a device (the metadata gives it a
\* liveness interval of 2000 ms, the default sync interval is 1000 ms)
RegisterDevice ==
    /\ table_count = 0
    /\ sds_register_table(SyncTable, TableName(SyncTable), "DEVICE", NoOptions)
    /\ HistoryVars(NoMsg)
    /\ last_status_ms' = IF ret' = "OK" THEN now ELSE last_status_ms
    /\ UNCHANGED delivering

\* the application changes the state of its table
WriteState ==
    /\ \E v \in 0..MaxVal : AppWrite(SyncTable, "state", v)
    /\ History

\* sds_loop; the clock of a status publish call is noted
LoopBeat ==
    /\ sds_loop
    /\ HistoryVars(NoMsg)
    /\ last_status_ms' =
          IF CallsFor(sent', TableName(SyncTable), "status") # {} THEN now
          ELSE last_status_ms
    /\ UNCHANGED delivering

\* sds_loop has synced every registration at this reading of the clock
Looped == \A i \in TableSlots : tables[i].active => tables[i].last_sync_ms = now

\* a sync interval passes; the application calls sds_loop once in each
TickLooped == Looped /\ Tick

NextBeat ==
    \/ Start
    \/ RegisterDevice
    \/ WriteState
    \/ LoopBeat
    \/ TickLooped

SpecBeat == Init /\ [][NextBeat]_vars

\* C36: a connected device registration with a liveness interval L > 0
\* whose sds_loop runs once per sync interval publishes status at least once
\* every L + sync_interval_ms, whatever state it publishes in between: when
\* sds_loop returns, less than that has passed since the last status publish
\* (or the registration)
C36_HeartbeatDespiteState ==
    [][(initialized /\ mqtt_connected /\ sds_loop)
          => \A i \in TableSlots :
                (/\ tables[i].active /\ tables[i].role = "DEVICE"
                 /\ tables[i].liveness_interval_ms > 0)
                    => ~U32Geq(U32Sub(now, last_status_ms'),
                               tables[i].liveness_interval_ms
                                   + tables[i].sync_interval_ms)]_vars

(* ---------------- an owner registered while disconnected ---------------- *)

\* the registration of slot i publishes config and the last operation made
\* a retained config publish call for it that the transport accepted (ok)
\* or refused
ConfigCall(i, ok) ==
    /\ tables[i].active /\ Publishes(tables[i], "config")
    /\ \E n \in CallsFor(sent, tables[i].table_type, "config") :
          sent[n].retained /\ sent[n].ok = ok

\* the owner registration of slot i has just been made while the transport
\* was disconnected
RegisteredOffline(i) ==
    /\ ret = "OK" /\ ~mqtt_connected
    /\ cfg_hist[i] = [count |-> 1, touched |-> FALSE]
    /\ ConfigCall(i, FALSE)

\* C37: the config of an owner table registered while the transport is
\* disconnected is published (retained) once the connection is
\* re-established for good and sds_loop keeps being called, unless the
\* application changes the config in between
C37_OfflineRegistrationPublished ==
    (<>[](mqtt_connected /\ publish_ok))
    => \A i \in TableSlots :
          RegisteredOffline(i) ~> (ConfigCall(i, TRUE) \/ cfg_hist[i].touched)

(* ---------------- specification of an owner that publishes state ---------------- *)

\* the application registers its table as an owner with every codec
\* function, so that the registration publishes state and receives it, and
\* with a sync interval of 0 ms, so that every call of sds_loop syncs it
RegisterMerge ==
    /\ table_count = 0
    /\ call_register_table_ex(SyncTable, TableName(SyncTable), "OWNER", 0,
                              AllSizes(SyncTable), EveryFunc)
    /\ History

\* the application changes its state to a value it keeps
WriteLocal == AppWrite(SyncTable, "state", MaxVal) /\ History

\* a state message of a device arrives: without a field of the section, or
\* with a value for it
DeliverState ==
    \E b \in {NoBody, 0, MaxVal} :
        /\ on_mqtt_message([table_type |-> TableName(SyncTable),
                            section |-> "state", dev |-> <<>>],
                           TableMsg("state", Dev1, b))
        /\ HistoryOf(TableMsg("state", Dev1, b))

NextMerge ==
    \/ Start
    \/ RegisterMerge
    \/ WriteLocal
    \/ DeliverState
    \/ TickOnce
    \/ Loop

\* the application's main loop keeps calling sds_loop
SpecMerge == Init /\ [][NextMerge]_vars /\ WF_vars(Loop)

\* the state of an owner registration that publishes state holds the value
\* v and its shadow does not: a local change waits for its publish
PendingState(v) ==
    \E i \in TableSlots :
        /\ tables[i].active /\ tables[i].role = "OWNER"
        /\ Publishes(tables[i], "state")
        /\ mem[tables[i].table].state = v
        /\ tables[i].shadow_state # v

\* the last operation made a state publish call carrying the value v
StatePublished(v) ==
    \E i \in TableSlots :
        /\ tables[i].active
        /\ \E n \in CallsFor(sent, tables[i].table_type, "state") :
              Carries(sent[n].payload, v)

Timeouts == {1500, 3000}

\* a status message of a device arrives
SeenStatus ==
    /\ on_mqtt_message([table_type |-> TableName(SyncTable), section |-> "status",
                        dev |-> Dev1], TableMsg("status", Dev1, MaxVal))
    /\ HistoryOf(TableMsg("status", Dev1, MaxVal))

\* the application asks whether the device is online
IsOnline ==
    /\ initialized
    /\ \E timeout_ms \in Timeouts :
          ret' = IF sds_is_device_online(SyncTable, TableName(SyncTable), Dev1,
                                         timeout_ms)
                 THEN "true" ELSE "false"
    /\ NoCalls
    /\ UNCHANGED <<core_vars, app_vars, mqtt_connected, connect_ok, publish_ok,
                   subs, now, mem, ticks>>
    /\ History

NextWrap ==
    \/ Start
    \/ RegisterFirst
    \/ Tick
    \/ Loop
    \/ Disconnect
    \/ ConnectToggle
    \/ SeenStatus
    \/ IsOnline

SpecWrap == Init /\ [][NextWrap]_vars

\* the clock has passed 2^32 - 1 since the node was started
Wrapped == ticks > 0 /\ now.hi = 0 /\ now.lo < ticks * SDS_DEFAULT_SYNC_INTERVAL_MS

\* elapsed times around an interval of n ms, one of them long enough to take
\* a clock started before the wrap across it
Around(n) == {d \in {0, n - 1, n, n + 1, n + 1500} : d >= 0}

\* C39: every interval test (sync interval, liveness interval, reconnect
\* backoff, device-online timeout) decides by the time elapsed since the
\* stored time stamp, now - prev in arithmetic modulo 2^32: d ms after the
\* time stamp its result is that of comparing d with the interval, also when
\* the clock has wrapped in between
C39_IntervalTestsWrap ==
    /\ \A i \in TableSlots :
          tables[i].active =>
             /\ \A d \in Around(tables[i].sync_interval_ms) :
                   sync_due(tables[i], U32Add(tables[i].last_sync_ms, d))
                      <=> d >= tables[i].sync_interval_ms
             /\ \A d \in Around(tables[i].liveness_interval_ms) :
                   liveness_expired(tables[i], U32Add(tables[i].last_publish_ms, d))
                      <=> (tables[i].liveness_interval_ms > 0
                           /\ d >= tables[i].liveness_interval_ms)
    /\ \A d \in Around(reconnect_backoff_ms) :
          backoff_running(last_reconnect_attempt_ms, reconnect_backoff_ms,
                          U32Add(last_reconnect_attempt_ms, d))
             <=> (reconnect_backoff_ms > 0 /\ d < reconnect_backoff_ms)
    /\ \A k \in TableIds, j \in 1..MaxSlots, timeout_ms \in Timeouts :
          \A d \in Around(timeout_ms) :
             seen_within(mem[k].status_slots[j], timeout_ms,
                         U32Add(mem[k].status_slots[j].last_seen_ms, d))
                <=> d < timeout_ms

\* the clock has wrapped and sds_loop has synced a registration after the
\* wrap whose last publish was before it
C39_Witness ==
    /\ Wrapped
    /\ \E i \in TableSlots :
          /\ tables[i].active
          /\ tables[i].last_sync_ms = now
          /\ tables[i].last_publish_ms.hi = LIMB - 1

(* ---------------- specification of the JSON writer ---------------- *)

\* the node and the history are not involved
WriterOnly ==
    UNCHANGED <<core_vars, app_vars, mqtt_connected, connect_ok, publish_ok,
                subs, now, mem, sent, err_calls, cb_calls, sub_calls, ret,
                ticks, cfg_hist, offline_change, beat, lwt_hist, inbound,
                delivering, last_status_ms>>

\* the application sets up a writer over a buffer of size bytes
WriterInit ==
    /\ \E size \in 0..MaxSize : writer' = sds_json_writer_init_bytes(size)
    /\ WriterOnly

\* the writer calls the application makes: the key "a", strings with a
\* quote, a tab and a control character among their characters
WriterOps ==
    {[f |-> "start_object"], [f |-> "end_object"]}
    \union {[f |-> "add_string", key |-> <<97>>, value |-> v] :
               v \in {<<>>, <<98, 99>>, <<34>>, <<98, 9>>, <<1>>,
                      <<98, 99, 100, 101, 102, 103, 104>>}}
    \union {[f |-> "add_uint", key |-> <<97>>, number |-> v] : v \in {7, 300}}
    \union {[f |-> "add_bool", key |-> <<97>>, flag |-> v] : v \in BOOLEAN}

WriterCall(op) == writer' = writer_call(writer, op) /\ WriterOnly

WriterStep == \E op \in WriterOps : WriterCall(op)

NextWriter ==
    \/ WriterInit
    \/ WriterStep

SpecWriter == Init /\ [][NextWriter]_vars

\* the JSON text of a string value
RECURSIVE Escaped(_)
Escaped(str) ==
    IF str = <<>> THEN <<>>
    ELSE (IF Head(str) \in {34, 92} THEN <<92, Head(str)>>
          ELSE IF Head(str) = 9 THEN <<92, 116>>
          ELSE IF Head(str) < 32 THEN unicode_seq(Head(str))
          ELSE <<Head(str)>>) \o Escaped(Tail(str))

\* the text a call appends to the writer w when all of it fits
Rendered(w, op) ==
    (IF op.f \in {"start_object", "end_object"} \/ w.pos = 0
        \/ w.buffer[w.pos - 1] \in {123, 91}
     THEN <<>> ELSE <<44>>)
    \o CASE op.f = "start_object" -> <<123>>
         [] op.f = "end_object" -> <<125>>
         [] op.f = "add_string" ->
               <<34>> \o op.key \o <<34, 58, 34>> \o Escaped(op.value) \o <<34>>
         [] op.f = "add_uint" -> <<34>> \o op.key \o <<34, 58>> \o snprintf_u(op.number)
         [] op.f = "add_bool" -> <<34>> \o op.key \o <<34, 58>> \o bool_text(op.flag)

\* the text and its NUL fit into what is left of the buffer
Fits(w, text) == w.pos + Len(text) < w.size

\* C40: a writer over a buffer of N bytes writes no byte outside the buffer;
\* a call whose text does not fit sets the error flag; and with the error
\* flag set every call leaves the flag, the buffer and the position as they
\* are.  (A call whose text fits appends it with a terminating NUL.)
C40_WriterBounded ==
    [][\A op \in WriterOps :
          WriterCall(op) =>
             /\ \A idx \in Cells :
                   idx >= writer.size => writer'.buffer[idx] = writer.buffer[idx]
             /\ writer.error => writer' = writer
             /\ (~writer.error /\ ~Fits(writer, Rendered(writer, op)))
                   => writer'.error
             /\ (~writer.error /\ Fits(writer, Rendered(writer, op)))
                   => /\ ~writer'.error
                      /\ writer' = store(writer, Rendered(writer, op))]_vars

\* a call has overflowed the buffer after part of its text was written, with
\* room left in the buffer, and nothing lies behind the buffer
C40_Witness ==
    /\ writer.error
    /\ writer.size = MaxSize
    /\ writer.pos > 1 /\ writer.pos + 1 < writer.size
    /\ writer.buffer[writer.pos] = 0
    /\ \A idx \in Cells : idx >= writer.size => writer.buffer[idx] = 0 - 1

====
